---- MODULE Spec2Model ----
(***************************************************************************)
(* Invoice-splitter: allocation arithmetic (rules/common.py), the vendor   *)
(* strategies (rules/vendor_*.py), the ledger transaction and the backup   *)
(* retention (excel/writer.py) and the save path of the main window        *)
(* (ui/main_window.py).                                                    *)
(*                                                                         *)
(* Money is an integer number of cents, a percentage an integer number of  *)
(* hundredths of a percent, a tax rate an integer number of 1/10000.       *)
(***************************************************************************)
EXTENDS Integers, Sequences, FiniteSets, TLC

VARIABLES alloc, rule, del, ret, excel_file, backup_dir, clock, txn, ui, util,
          app

\* Optional values: None is the empty tuple, Some(v) the one-element tuple.
None == <<>>
Some(v) == <<v>>

(***************************************************************************)
(* Bounds of the model.                                                    *)
(***************************************************************************)
MaxCents == 4
MaxAllocs == 3

(***************************************************************************)
(* rules/common.py                                                         *)
(***************************************************************************)
Abs(x) == IF x < 0 THEN -x ELSE x

\* TWOPLACES = Decimal("0.01"): the number of cents in one currency unit.
TWOPLACES == 100

\* TOLERANCE = Decimal("0.01"), in cents.
TOLERANCE == 1

q2TruncatePlusOne(num, den) ==
    LET mag == (Abs(num) \div den) + 1
    IN  IF num < 0 THEN -mag ELSE mag

\* q2 applied to the rational num/den cents (den > 0): ROUND_HALF_UP rounds
\* to the nearest cent, a tie away from zero.
q2(num, den) ==
    LET mag == (2 * Abs(num) + den) \div (2 * den)
    IN  IF num < 0 THEN -mag ELSE mag

RECURSIVE SumSeq(_)
SumSeq(s) == IF s = <<>> THEN 0 ELSE s[1] + SumSeq(Tail(s))

\* One line of the loops at common.py:66-76.
PercentAmount(subtotal, a) ==
    LET pct == IF a.percent # None THEN a.percent[1] ELSE 0
    IN  q2(subtotal * pct, TWOPLACES * 100)

AmountAmount(a) ==
    LET amt == IF a.amount # None THEN a.amount[1] ELSE 0
    IN  q2(amt, 1)

LineAmounts(subtotal, mode, allocations) ==
    [i \in 1..Len(allocations) |->
        IF mode = "percent" THEN PercentAmount(subtotal, allocations[i])
                            ELSE AmountAmount(allocations[i])]

ExceedsToleranceNoAbs(diff, tolerance) == diff > tolerance

\* common.py:82  diff.copy_abs() > tolerance
ExceedsTolerance(diff, tolerance) == Abs(diff) > tolerance

AdjustNone(amounts, diff) == amounts

AdjustFirst(amounts, diff) ==
    IF diff # 0 THEN [amounts EXCEPT ![1] = q2(amounts[1] + diff, 1)]
                ELSE amounts

\* common.py:89-90  amounts[-1] = q2(amounts[-1] + diff)
AdjustLast(amounts, diff) ==
    IF diff # 0
    THEN [amounts EXCEPT ![Len(amounts)] = q2(amounts[Len(amounts)] + diff, 1)]
    ELSE amounts

Raised(e) == [status |-> e, pairs |-> <<>>]

Zip(allocations, amounts) ==
    [i \in 1..Len(allocations) |-> <<allocations[i], amounts[i]>>]

CheckInputEmptyFirst(mode, allocations) ==
    IF allocations = <<>> THEN "EmptyAllocations"
    ELSE IF mode \notin {"percent", "amount"} THEN "InvalidMode"
    ELSE "ok"

\* common.py:58-62: the two checks made before any amount is computed.
CheckInput(mode, allocations) ==
    IF mode \notin {"percent", "amount"} THEN "InvalidMode"
    ELSE IF allocations = <<>> THEN "EmptyAllocations"
    ELSE "ok"

validate_and_compute_allocations(subtotal, mode, allocations) ==
    IF CheckInput(mode, allocations) # "ok"
    THEN Raised(CheckInput(mode, allocations))
    ELSE LET amounts == LineAmounts(subtotal, mode, allocations)
             total   == q2(SumSeq(amounts), 1)
             diff    == q2(subtotal - total, 1)
         IN  IF ExceedsTolerance(diff, TOLERANCE)
             THEN Raised("ReconciliationError")
             ELSE [status |-> "ok",
                   pairs  |-> Zip(allocations, AdjustLast(amounts, diff))]

(***************************************************************************)
(* Texts.  A text the code takes apart character by character (vendor,     *)
(* table and sheet names, bill numbers) is a sequence of one-character     *)
(* strings; a text the code only trims and compares is a string, and       *)
(* str.strip() / str.lower() are tabulated on the texts of the model.      *)
(***************************************************************************)
StripTable ==
    (" Internet " :> "Internet") @@ ("  " :> "") @@
    (" Otro (personalizado) " :> "Otro (personalizado)") @@
    (" SBC " :> "SBC") @@ ("Soporte " :> "Soporte")

strip(s) == IF s \in DOMAIN StripTable THEN StripTable[s] ELSE s

LowerTable == ("SBC" :> "sbc") @@ ("Mobile" :> "mobile") @@ (".XLSX" :> ".xlsx")

lower(s) == IF s \in DOMAIN LowerTable THEN LowerTable[s] ELSE s

\* Python's  x or y  on optional texts:  None and "" are falsy.
OrText(opt, dflt) == IF opt = None \/ opt = Some("") THEN dflt ELSE opt[1]

\* (x or "").strip() or dflt
StripOr(opt, dflt) ==
    LET t == strip(OrText(opt, "")) IN IF t = "" THEN dflt ELSE t

(***************************************************************************)
(* models.py: InvoiceInput, LineItem; the extras bag.                      *)
(***************************************************************************)
ExtraKeys == {"cc", "gl_account", "bandwidth_mbps", "sip_channels",
              "sbc_siptrunk_mbps", "sbc_lic_qty", "sbc_siptrunk_price",
              "sbc_lic_price", "mobile_phone_lines_qty", "phone_lines_qty",
              "custom_concept"}

NoExtras == [k \in ExtraKeys |-> None]

\* extras.get(key, default)
ExtrasGet(extras, key, dflt) == IF extras[key] = None THEN dflt ELSE extras[key][1]

LineItem(table_name, values) == [table_name |-> table_name, values |-> values]

OkLines(lines) == [status |-> "ok", lines |-> lines]
RaisedLines(e) == [status |-> e, lines |-> <<>>]

\* rules/common.py:17-21; iva_rate is in 1/10000.
calc_iva_and_total(subtotal, iva_rate) ==
    LET iva == q2(subtotal * iva_rate, 10000)
    IN  [iva |-> iva, total |-> q2(subtotal + iva, 1)]

\* The _make_line / _make_*_line helpers of the vendor modules: the eleven
\* base columns plus the vendor's extra columns.
make_line(table_name, invoice, concept, cc, gl, subtotal_assigned, extra_cols) ==
    LET it == calc_iva_and_total(subtotal_assigned, invoice.iva_rate)
    IN  LineItem(table_name,
            ("Date" :> invoice.invoice_date) @@
            ("Bill number" :> invoice.bill_number) @@
            ("ID" :> invoice.vendor_id) @@
            ("Vendor" :> invoice.vendor_name) @@
            ("Service/ concept" :> concept) @@
            ("CC" :> cc) @@
            ("GL account" :> gl) @@
            ("Subtotal assigned by CC" :> subtotal_assigned) @@
            ("% IVA" :> invoice.iva_rate) @@
            ("IVA assigned by CC" :> it.iva) @@
            ("Total assigned by CC" :> it.total) @@
            extra_cols)

\* if invoice.alloc_mode and invoice.allocations
HasSplit(invoice) == invoice.alloc_mode # None /\ invoice.allocations # <<>>

\* Custom concept with a split: one line per pair of the validator.
CustomSplitLines(table_name, invoice, concept, extra_cols) ==
    LET r == validate_and_compute_allocations(
                 invoice.subtotal, invoice.alloc_mode[1], invoice.allocations)
    IN  IF r.status # "ok" THEN RaisedLines(r.status)
        ELSE OkLines([i \in 1..Len(r.pairs) |->
                make_line(table_name, invoice,
                          strip(OrText(r.pairs[i][1].concept, concept)),
                          r.pairs[i][1].cc, r.pairs[i][1].gl_account,
                          r.pairs[i][2], extra_cols)])

SingleLineNoCheck(table_name, invoice, concept, extra_cols) ==
    OkLines(<<make_line(table_name, invoice, concept,
                        ExtrasGet(invoice.extras, "cc", 0),
                        ExtrasGet(invoice.extras, "gl_account", "0"),
                        invoice.subtotal, extra_cols)>>)

\* Custom concept without split: one line at 100% to extras['cc'] /
\* extras['gl_account'], an error when either is missing.
SingleLine(table_name, invoice, concept, extra_cols) ==
    IF invoice.extras["cc"] = None \/ invoice.extras["gl_account"] = None
    THEN RaisedLines("MissingAccountError")
    ELSE OkLines(<<make_line(table_name, invoice, concept,
                             invoice.extras["cc"][1], invoice.extras["gl_account"][1],
                             invoice.subtotal, extra_cols)>>)

CustomLines(table_name, invoice, concept, extra_cols) ==
    IF HasSplit(invoice)
    THEN CustomSplitLines(table_name, invoice, concept, extra_cols)
    ELSE SingleLine(table_name, invoice, concept, extra_cols)

\* q2(invoice.subtotal * PCT) with PCT a fraction in hundredths.
Part(subtotal, pct_hundredths) == q2(subtotal * pct_hundredths, 100)

\* A vendor without extra columns: the empty map.
NoCols == [h \in {} |-> 0]

(***************************************************************************)
(* rules/vendor_1254926_cirion.py                                          *)
(***************************************************************************)
CIRION_ID == 1254926
CIRION_TABLE == <<"C", "i", "r", "i", "o", "n", "_", "t", "a", "b", "l", "e">>
CIRION_DEFAULT_CONCEPT == "Internet"
CIRION_DEFAULT_BANDWIDTH == 40

build_lines_for_cirion(invoice) ==
    LET concept == StripOr(invoice.service_concept, CIRION_DEFAULT_CONCEPT)
        cols == "Bandwidth (MBPS)" :>
                    ExtrasGet(invoice.extras, "bandwidth_mbps", CIRION_DEFAULT_BANDWIDTH)
    IN  IF concept = CIRION_DEFAULT_CONCEPT
        THEN OkLines(<<
                make_line(CIRION_TABLE, invoice, concept, 7475036, "7418000000",
                          Part(invoice.subtotal, 60), cols),
                make_line(CIRION_TABLE, invoice, concept, 3941036, "3526400000",
                          Part(invoice.subtotal, 40), cols)>>)
        ELSE CustomLines(CIRION_TABLE, invoice, concept, cols)

(***************************************************************************)
(* rules/vendor_1255036_akros.py                                           *)
(***************************************************************************)
AKROS_ID == 1255036
AKROS_TABLE == <<"A", "k", "r", "o", "s", "_", "b", "i", "l", "l", "s", "_", "t", "a", "b", "l", "e">>
AKROS_DEFAULT_CONCEPT == "Printers & Copiers"

build_lines_for_akros(invoice) ==
    LET concept == StripOr(invoice.service_concept, AKROS_DEFAULT_CONCEPT)
    IN  IF concept = AKROS_DEFAULT_CONCEPT
        THEN OkLines(<<
                make_line(AKROS_TABLE, invoice, concept, 3941036, "3526200000",
                          Part(invoice.subtotal, 40), NoCols),
                make_line(AKROS_TABLE, invoice, concept, 7475036, "7427000000",
                          Part(invoice.subtotal, 60), NoCols)>>)
        ELSE CustomLines(AKROS_TABLE, invoice, concept, NoCols)

(***************************************************************************)
(* rules/vendor_1260177_movistar.py                                        *)
(***************************************************************************)
MOVISTAR_ID == 1260177
MOVISTAR_TABLE == <<"M", "o", "v", "i", "s", "t", "a", "r", "_", "t", "a", "b", "l", "e">>
MOVISTAR_DEFAULT_CONCEPT == "10 lines DRP (4 lines 35 GB + 6 lines 53 GB)"
MOVISTAR_DEFAULT_LINES == 10

build_lines_for_movistar(invoice) ==
    LET concept == StripOr(invoice.service_concept, MOVISTAR_DEFAULT_CONCEPT)
        cols == "Phone lines quantity" :>
                    ExtrasGet(invoice.extras, "phone_lines_qty", MOVISTAR_DEFAULT_LINES)
    IN  IF concept = MOVISTAR_DEFAULT_CONCEPT
        THEN OkLines(<<
                make_line(MOVISTAR_TABLE, invoice, concept, 7475036, "4649000000",
                          Part(invoice.subtotal, 60), cols),
                make_line(MOVISTAR_TABLE, invoice, concept, 3941036, "3649000000",
                          Part(invoice.subtotal, 40), cols)>>)
        ELSE CustomLines(MOVISTAR_TABLE, invoice, concept, cols)

(***************************************************************************)
(* rules/vendor_1255097_eikon.py                                           *)
(***************************************************************************)
EIKON_ID == 1255097
EIKON_TABLE == <<"E", "i", "k", "o", "n", "_", "t", "a", "b", "l", "e">>
EIKON_GL_DEFAULT == "7980100000"
EIKON_CONCEPTS == {"Infrastructure cloud (Monthly)", "Azure Consumptions (biannual)",
                   "Maintenance and support (annual)", "Domains (annual)"}

build_lines_for_eikon(invoice) ==
    LET concept == StripOr(invoice.service_concept, "Infrastructure cloud (Monthly)")
    IN  IF concept \notin EIKON_CONCEPTS
        THEN CustomLines(EIKON_TABLE, invoice, concept, NoCols)
        ELSE IF concept = "Infrastructure cloud (Monthly)"
        THEN OkLines(<<
                make_line(EIKON_TABLE, invoice, concept, 7457036, EIKON_GL_DEFAULT,
                          Part(invoice.subtotal, 60), NoCols),
                make_line(EIKON_TABLE, invoice, concept, 7475036, EIKON_GL_DEFAULT,
                          Part(invoice.subtotal, 40), NoCols)>>)
        ELSE IF concept = "Azure Consumptions (biannual)"
        THEN OkLines(<<make_line(EIKON_TABLE, invoice, concept, 7475036,
                                 EIKON_GL_DEFAULT, invoice.subtotal, NoCols)>>)
        ELSE IF concept = "Maintenance and support (annual)"
        THEN OkLines(<<make_line(EIKON_TABLE, invoice, concept, 1100036,
                                 EIKON_GL_DEFAULT, invoice.subtotal, NoCols)>>)
        ELSE OkLines(<<make_line(EIKON_TABLE, invoice, concept, 7475036,
                                 EIKON_GL_DEFAULT, invoice.subtotal, NoCols)>>)

(***************************************************************************)
(* rules/vendor_1261182_puntonet.py, rules/vendor_1274957_sipbox.py        *)
(***************************************************************************)
PUNTONET_ID == 1261182
PUNTONET_TABLE == <<"P", "u", "n", "t", "o", "n", "e", "t", "_", "t", "a", "b", "l", "e">>
PUNTONET_DEFAULT_CONCEPT == "40 MBPS"

build_lines_for_puntonet(invoice) ==
    LET concept == StripOr(invoice.service_concept, PUNTONET_DEFAULT_CONCEPT)
    IN  IF concept = PUNTONET_DEFAULT_CONCEPT
        THEN OkLines(<<make_line(PUNTONET_TABLE, invoice, concept, 1100036,
                                 "7418000000", invoice.subtotal, NoCols)>>)
        ELSE CustomLines(PUNTONET_TABLE, invoice, concept, NoCols)

SIPBOX_ID == 1274957
SIPBOX_TABLE == <<"S", "i", "p", "b", "o", "x", "_", "t", "a", "b", "l", "e">>
SIPBOX_DEFAULT_CONCEPT == "Lenovo ThinkSmartHub + Stem speaker + POE switch"

build_lines_for_sipbox(invoice) ==
    LET concept == StripOr(invoice.service_concept, SIPBOX_DEFAULT_CONCEPT)
    IN  IF concept = SIPBOX_DEFAULT_CONCEPT
        THEN OkLines(<<make_line(SIPBOX_TABLE, invoice, concept, 7475036,
                                 "7648100000", invoice.subtotal, NoCols)>>)
        ELSE CustomLines(SIPBOX_TABLE, invoice, concept, NoCols)

(***************************************************************************)
(* rules/vendor_1254902_claro.py                                           *)
(***************************************************************************)
CLARO_ID == 1254902
SIPTRUNK_TABLE == <<"C", "l", "a", "r", "o", "_", "s", "i", "p", "t", "r", "u", "n", "k", "_", "t", "a", "b", "l", "e">>
SBC_TABLE == <<"C", "l", "a", "r", "o", "_", "S", "B", "C", "_", "t", "a", "b", "l", "e">>
MOBILE_TABLE == <<"C", "l", "a", "r", "o", "_", "m", "o", "b", "i", "l", "e", "_", "t", "a", "b", "l", "e">>
OTRO == "Otro (personalizado)"

SIPTRUNK_DEFAULT_BW == 50
SIPTRUNK_DEFAULT_CHANNELS == 10
SBC_DEFAULT_CONCEPT == "SBC in cloud"
SBC_DEFAULT_SIPTRUNK_MBPS == 2
SBC_DEFAULT_LIC_QTY == 14
\* Prices in cents.
SBC_DEFAULT_SIPTRUNK_PRICE == 8000
SBC_DEFAULT_LIC_PRICE == 26600
MOBILE_DEFAULT_CONCEPT == "2 lines 50 GB + 3 lines 20 GB"
MOBILE_DEFAULT_LINES_QTY == 5

\* (cc, gl, percent in hundredths of a percent)
MOBILE_SPLIT == <<
    [cc |-> 7300036, gl |-> "4649000000", pct |-> 4091],
    [cc |-> 7410036, gl |-> "4649000000", pct |-> 1563],
    [cc |-> 3941036, gl |-> "3649000000", pct |-> 2841],
    [cc |-> 7475036, gl |-> "4649000000", pct |-> 1505]>>

SBC_SPLIT == <<
    [cc |-> 7475036, gl |-> "7648100000", pct |-> 6000],
    [cc |-> 3941036, gl |-> "3648000000", pct |-> 4000]>>

\* (concept, cc, gl, absolute amount in cents)
SIPTRUNK_FIXED_LINES_ABS == <<
    [cpt |-> "CONECEL (Internet 50 Mbps) - SD WAN", cc |-> 7475036,
     gl |-> "7418000000", abs_amt |-> 30000],
    [cpt |-> "CONECEL (Internet 50 Mbps) - SD WAN", cc |-> 3941036,
     gl |-> "3526400000", abs_amt |-> 20000]>>

SIPTRUNK_VARIABLE_LINES == <<
    [cpt |-> "Consumos SIP Trunk - Claro ECUADOR", cc |-> 7000036,
     gl |-> "7648100000", pct |-> 3700],
    [cpt |-> "Consumos SIP Trunk - Claro ECUADOR", cc |-> 7100036,
     gl |-> "7648100000", pct |-> 1100],
    [cpt |-> "Consumos SIP Trunk - Claro ECUADOR", cc |-> 7300036,
     gl |-> "7648100000", pct |-> 3200],
    [cpt |-> "Consumos SIP Trunk - Claro ECUADOR", cc |-> 3941036,
     gl |-> "3648000000", pct |-> 1500],
    [cpt |-> "Consumos SIP Trunk - Claro ECUADOR", cc |-> 7475036,
     gl |-> "7648100000", pct |-> 500]>>

SubtotalOf(line) == line.values["Subtotal assigned by CC"]

LineSubtotals(lines) == [i \in 1..Len(lines) |-> SubtotalOf(lines[i])]

\* An adjustment that leaves the tax and the total of the line as they were.
WithSubtotalOnly(line, iva_rate, amount) ==
    [line EXCEPT !.values = [h \in DOMAIN line.values |->
                               IF h = "Subtotal assigned by CC" THEN amount
                               ELSE line.values[h]]]

\* Rewrites the Subtotal / IVA / Total of one line (claro.py:139-144).
WithSubtotal(line, iva_rate, amount) ==
    LET it == calc_iva_and_total(amount, iva_rate)
    IN  [line EXCEPT !.values =
            [h \in DOMAIN line.values |->
                CASE h = "Subtotal assigned by CC" -> amount
                  [] h = "IVA assigned by CC" -> it.iva
                  [] h = "Total assigned by CC" -> it.total
                  [] OTHER -> line.values[h]]]

CloseNothing(lines, subtotal, iva_rate) == lines

\* The closing adjustment shared by _build_siptrunk (claro.py:134-144),
\* _build_sbc (259-267) and _build_mobile (371-379): the last line absorbs
\* subtotal - total_assigned and its tax and total are recomputed.
CloseOnLast(lines, subtotal, iva_rate) ==
    LET total_assigned == q2(SumSeq(LineSubtotals(lines)), 1)
        diff == q2(subtotal - total_assigned, 1)
        n == Len(lines)
    IN  IF diff # 0
        THEN [lines EXCEPT ![n] =
                WithSubtotal(lines[n], iva_rate, q2(SubtotalOf(lines[n]) + diff, 1))]
        ELSE lines

ClaroCustom(table_name, invoice, dflt, cols) ==
    CustomLines(table_name, invoice,
                StripOr(invoice.extras["custom_concept"], dflt), cols)

SignAlwaysPositive(subtotal) == 1

\* claro.py:103: the sign follows the subtotal, zero counting as positive.
SignOf(subtotal) == IF subtotal < 0 THEN -1 ELSE 1

BaseIsSubtotal(subtotal, fixed_total) == subtotal

\* claro.py:117: what is left of the subtotal after the fixed lines.
RemainderBase(subtotal, fixed_total) == q2(subtotal - fixed_total, 1)

VariableAmountTruncated(base, pct) ==
    IF base < 0 THEN -((-base * pct) \div 10000) ELSE (base * pct) \div 10000

\* claro.py:122: q2(base * (pct / 100)), pct in hundredths of a percent.
VariableAmount(base, pct) == q2(base * pct, 10000)

_build_siptrunk(invoice) ==
    LET cols == ("Bandwidth (MBPS)" :>
                    ExtrasGet(invoice.extras, "bandwidth_mbps", SIPTRUNK_DEFAULT_BW)) @@
                ("Troncal SIP (channels)" :>
                    ExtrasGet(invoice.extras, "sip_channels", SIPTRUNK_DEFAULT_CHANNELS))
        concept == StripOr(invoice.service_concept, "Claro Siptrunk")
        sign == SignOf(invoice.subtotal)
        fixed_amounts == [i \in 1..Len(SIPTRUNK_FIXED_LINES_ABS) |->
                            q2(Abs(SIPTRUNK_FIXED_LINES_ABS[i].abs_amt) * sign, 1)]
        fixed_total == q2(SumSeq(fixed_amounts), 1)
        base == RemainderBase(invoice.subtotal, fixed_total)
        raw_variable == [i \in 1..Len(SIPTRUNK_VARIABLE_LINES) |->
                            VariableAmount(base, SIPTRUNK_VARIABLE_LINES[i].pct)]
        diff == q2(base - SumSeq(raw_variable), 1)
        variable_amounts ==
            IF diff # 0
            THEN [raw_variable EXCEPT ![Len(raw_variable)] =
                      q2(raw_variable[Len(raw_variable)] + diff, 1)]
            ELSE raw_variable
        fixed_lines == [i \in 1..Len(SIPTRUNK_FIXED_LINES_ABS) |->
            make_line(SIPTRUNK_TABLE, invoice, SIPTRUNK_FIXED_LINES_ABS[i].cpt,
                      SIPTRUNK_FIXED_LINES_ABS[i].cc, SIPTRUNK_FIXED_LINES_ABS[i].gl,
                      fixed_amounts[i], cols)]
        variable_lines == [i \in 1..Len(SIPTRUNK_VARIABLE_LINES) |->
            make_line(SIPTRUNK_TABLE, invoice, SIPTRUNK_VARIABLE_LINES[i].cpt,
                      SIPTRUNK_VARIABLE_LINES[i].cc, SIPTRUNK_VARIABLE_LINES[i].gl,
                      variable_amounts[i], cols)]
    IN  IF concept = OTRO
        THEN ClaroCustom(SIPTRUNK_TABLE, invoice, "Claro Siptrunk - Custom", cols)
        ELSE OkLines(CloseOnLast(fixed_lines \o variable_lines,
                                 invoice.subtotal, invoice.iva_rate))

\* The standard schedule of _build_sbc and _build_mobile: one line per entry
\* at q2(subtotal * pct / 100), then the closing adjustment.
ScheduleLines(table_name, invoice, concept, split, cols) ==
    CloseOnLast(
        [i \in 1..Len(split) |->
            make_line(table_name, invoice, concept, split[i].cc, split[i].gl,
                      q2(invoice.subtotal * split[i].pct, 10000), cols)],
        invoice.subtotal, invoice.iva_rate)

_build_sbc(invoice) ==
    LET concept == StripOr(invoice.service_concept, SBC_DEFAULT_CONCEPT)
        sip0 == ExtrasGet(invoice.extras, "sbc_siptrunk_price", SBC_DEFAULT_SIPTRUNK_PRICE)
        lic0 == ExtrasGet(invoice.extras, "sbc_lic_price", SBC_DEFAULT_LIC_PRICE)
        sip_price == IF invoice.subtotal < 0 THEN -Abs(sip0) ELSE sip0
        lic_price == IF invoice.subtotal < 0 THEN -Abs(lic0) ELSE lic0
        cols == ("Siptrunk (MBPS)" :>
                    ExtrasGet(invoice.extras, "sbc_siptrunk_mbps", SBC_DEFAULT_SIPTRUNK_MBPS)) @@
                ("Licences (Quantity)" :>
                    ExtrasGet(invoice.extras, "sbc_lic_qty", SBC_DEFAULT_LIC_QTY)) @@
                ("Siptrunk price" :> sip_price) @@
                ("Licences price" :> lic_price)
    IN  IF concept = OTRO
        THEN ClaroCustom(SBC_TABLE, invoice, "SBC - Custom", cols)
        ELSE OkLines(ScheduleLines(SBC_TABLE, invoice, SBC_DEFAULT_CONCEPT, SBC_SPLIT, cols))

_build_mobile(invoice) ==
    LET concept == StripOr(invoice.service_concept, MOBILE_DEFAULT_CONCEPT)
        cols == "Phone lines quantity" :>
                    ExtrasGet(invoice.extras, "mobile_phone_lines_qty", MOBILE_DEFAULT_LINES_QTY)
    IN  IF concept = OTRO
        THEN ClaroCustom(MOBILE_TABLE, invoice, "Claro Mobile - Custom", cols)
        ELSE OkLines(ScheduleLines(MOBILE_TABLE, invoice, MOBILE_DEFAULT_CONCEPT,
                                   MOBILE_SPLIT, cols))

build_lines_for_claro_unchecked(invoice) ==
    LET service_type == lower(strip(OrText(invoice.service_type, "")))
    IN  IF service_type = "siptrunk" THEN _build_siptrunk(invoice)
        ELSE IF service_type = "sbc" THEN _build_sbc(invoice)
        ELSE _build_mobile(invoice)

build_lines_for_claro(invoice) ==
    LET service_type == lower(strip(OrText(invoice.service_type, "")))
    IN  IF service_type \notin {"siptrunk", "sbc", "mobile"}
        THEN RaisedLines("InvalidServiceType")
        ELSE IF service_type = "siptrunk" THEN _build_siptrunk(invoice)
        ELSE IF service_type = "sbc" THEN _build_sbc(invoice)
        ELSE _build_mobile(invoice)

(***************************************************************************)
(* rules/vendor_generic.py                                                 *)
(***************************************************************************)
WordChars == {"0", "1", "2", "3", "4", "5", "6", "7", "8", "9", "_",
    "A", "B", "C", "D", "E", "F", "G", "H", "I", "J", "K", "L", "M",
    "N", "O", "P", "Q", "R", "S", "T", "U", "V", "W", "X", "Y", "Z",
    "a", "b", "c", "d", "e", "f", "g", "h", "i", "j", "k", "l", "m",
    "n", "o", "p", "q", "r", "s", "t", "u", "v", "w", "x", "y", "z"}

RECURSIVE LStrip(_, _)
LStrip(s, cs) == IF s # <<>> /\ s[1] \in cs THEN LStrip(Tail(s), cs) ELSE s

RECURSIVE RStrip(_, _)
RStrip(s, cs) ==
    IF s # <<>> /\ s[Len(s)] \in cs THEN RStrip(SubSeq(s, 1, Len(s) - 1), cs) ELSE s

StripChars(s, cs) == RStrip(LStrip(s, cs), cs)

\* re.sub(r"\s+", "_", s)
RECURSIVE SubSpaces(_)
SubSpaces(s) ==
    IF s = <<>> THEN <<>>
    ELSE IF s[1] = " " THEN <<"_">> \o SubSpaces(LStrip(s, {" "}))
    ELSE <<s[1]>> \o SubSpaces(Tail(s))

\* re.sub(r"[^0-9A-Za-z_]", "_", s)
SubNonWord(s) == [i \in 1..Len(s) |-> IF s[i] \in WordChars THEN s[i] ELSE "_"]

\* re.sub(r"_+", "_", s)
RECURSIVE Collapse(_)
Collapse(s) ==
    IF Len(s) < 2 THEN s
    ELSE IF s[1] = "_" /\ s[2] = "_" THEN Collapse(Tail(s))
    ELSE <<s[1]>> \o Collapse(Tail(s))

DigitChar == <<"0", "1", "2", "3", "4", "5", "6", "7", "8", "9">>

\* str(n) for n >= 0
RECURSIVE Digits(_)
Digits(n) == IF n < 10 THEN <<DigitChar[n + 1]>>
             ELSE Digits(n \div 10) \o <<DigitChar[(n % 10) + 1]>>

MAX_BASE_LEN == 50

_slug_table_name(vendor_name, vendor_id) ==
    LET b1 == StripChars(vendor_name, {" "})
        b2 == SubSpaces(b1)
        b3 == SubNonWord(b2)
        b4 == StripChars(Collapse(b3), {"_"})
        b5 == IF b4 = <<>> THEN <<"V", "e", "n", "d", "o", "r">> ELSE b4
        suffix == <<"_">> \o Digits(vendor_id) \o <<"_", "t", "a", "b", "l", "e">>
        b6 == IF Len(b5) > MAX_BASE_LEN
              THEN RStrip(SubSeq(b5, 1, MAX_BASE_LEN), {"_"})
              ELSE b5
    IN  b6 \o suffix

build_lines_generic(invoice) ==
    LET table_name == _slug_table_name(invoice.vendor_name, invoice.vendor_id)
        concept_general == StripOr(invoice.service_concept, "Concepto personalizado")
        r == validate_and_compute_allocations(
                 invoice.subtotal, invoice.alloc_mode[1], invoice.allocations)
    IN  IF HasSplit(invoice)
        THEN IF r.status # "ok" THEN RaisedLines(r.status)
             ELSE OkLines([i \in 1..Len(r.pairs) |->
                    LET c == strip(OrText(r.pairs[i][1].concept, concept_general))
                        line == make_line(table_name, invoice,
                                    IF c = "" THEN concept_general ELSE c,
                                    r.pairs[i][1].cc, r.pairs[i][1].gl_account,
                                    r.pairs[i][2], NoCols)
                    IN  [line EXCEPT !.values["Subtotal assigned by CC"] =
                                          q2(r.pairs[i][2], 1)]])
        ELSE IF invoice.extras["cc"] = None \/ invoice.extras["gl_account"] = None
        THEN RaisedLines("MissingAccountError")
        ELSE LET line == make_line(table_name, invoice, concept_general,
                                   invoice.extras["cc"][1],
                                   invoice.extras["gl_account"][1],
                                   invoice.subtotal, NoCols)
             IN  OkLines(<<[line EXCEPT !.values["Subtotal assigned by CC"] =
                                            q2(invoice.subtotal, 1)]>>)

(***************************************************************************)
(* rules/vendor_9999999_dummy.py                                           *)
(***************************************************************************)
DUMMY_ID == 9999999
DUMMY_TABLE == <<"D", "u", "m", "m", "y", "_", "t", "a", "b", "l", "e">>

build_lines_for_dummy(invoice) ==
    LET concept_general == StripOr(invoice.service_concept, "Dummy")
    IN  IF HasSplit(invoice)
        THEN CustomSplitLines(DUMMY_TABLE, invoice, concept_general, NoCols)
        ELSE OkLines(<<make_line(DUMMY_TABLE, invoice, concept_general,
                                 ExtrasGet(invoice.extras, "cc", 1100036),
                                 ExtrasGet(invoice.extras, "gl_account", "7418000000"),
                                 invoice.subtotal, NoCols)>>)

(***************************************************************************)
(* rules/registry.py                                                       *)
(***************************************************************************)
\* The vendor_* modules of the rules package: the VENDOR_ID attribute and
\* whether the module defines build_lines_for_vendor.
VendorModules == {
    [name |-> "vendor_1254902_claro",    VENDOR_ID |-> None, has_fn |-> FALSE],
    [name |-> "vendor_1254926_cirion",   VENDOR_ID |-> None, has_fn |-> FALSE],
    [name |-> "vendor_1255036_akros",    VENDOR_ID |-> None, has_fn |-> FALSE],
    [name |-> "vendor_1255097_eikon",    VENDOR_ID |-> None, has_fn |-> FALSE],
    [name |-> "vendor_1260177_movistar", VENDOR_ID |-> Some(1260177), has_fn |-> TRUE],
    [name |-> "vendor_1261182_puntonet", VENDOR_ID |-> None, has_fn |-> FALSE],
    [name |-> "vendor_1274957_sipbox",   VENDOR_ID |-> None, has_fn |-> FALSE],
    [name |-> "vendor_9999999_dummy",    VENDOR_ID |-> Some(9999999), has_fn |-> TRUE],
    [name |-> "vendor_generic",          VENDOR_ID |-> None, has_fn |-> FALSE]}

\* registry.py:29-60: the modules that expose both attributes, by vendor id.
_load_rules ==
    LET ok == {m \in VendorModules : m.VENDOR_ID # None /\ m.has_fn}
    IN  [id \in {m.VENDOR_ID[1] : m \in ok} |->
            (CHOOSE m \in ok : m.VENDOR_ID[1] = id).name]

\* The module's build_lines_for_vendor.
CallModule(name, invoice) ==
    CASE name = "vendor_1260177_movistar" -> build_lines_for_movistar(invoice)
      [] name = "vendor_9999999_dummy" -> build_lines_for_dummy(invoice)
      [] OTHER -> RaisedLines("UnknownVendorRule")

build_lines(invoice) ==
    IF invoice.vendor_id \notin DOMAIN _load_rules
    THEN RaisedLines("UnknownVendorRule")
    ELSE CallModule(_load_rules[invoice.vendor_id], invoice)

(***************************************************************************)
(* excel/writer.py: the workbook as openpyxl holds it.                     *)
(*                                                                         *)
(* A workbook is the sequence of its sheets.  A sheet carries at most one  *)
(* Excel table, anchored at A1 as ensure_table_exists creates it: row 1 is *)
(* the header row, the table's ref ends at row max_row, and rows[i] is     *)
(* sheet row i + 1.  A cell value is None, an int, a str, a Decimal or a   *)
(* date; cell styles and number formats carry no value and are left out.   *)
(***************************************************************************)
NoneCell == [t |-> "none", n |-> 0, s |-> <<>>]
IntCell(n) == [t |-> "int", n |-> n, s |-> <<>>]
\* An integer beyond 32 bits (a GL account), by its digits.
BigIntCell(digits) == [t |-> "bigint", n |-> 0, s |-> <<digits>>]
\* A str the code inspects, as its characters.
StrCell(chars) == [t |-> "str", n |-> 0, s |-> chars]
\* A str the code only stores.
TextCell(text) == [t |-> "text", n |-> 0, s |-> <<text>>]
\* A Decimal with two places, in cents.
DecCell(cents) == [t |-> "dec", n |-> cents, s |-> <<>>]
DateCell(d) == [t |-> "date", n |-> 0, s |-> <<d>>]

Whitespace == {" ", "\t", "\n"}

\* str(n) for any int
IntStr(n) == IF n < 0 THEN <<"-">> \o Digits(-n) ELSE Digits(n)

\* str(Decimal) of a value with two places
DecStr(cents) ==
    LET a == Abs(cents)
    IN  (IF cents < 0 THEN <<"-">> ELSE <<>>) \o Digits(a \div 100) \o <<".">> \o
        <<DigitChar[((a % 100) \div 10) + 1], DigitChar[(a % 10) + 1]>>

\* str(value) of a cell value
PyStr(cell) ==
    CASE cell.t = "str" -> cell.s
      [] cell.t = "int" -> IntStr(cell.n)
      [] cell.t = "dec" -> DecStr(cell.n)
      [] cell.t = "none" -> <<"N", "o", "n", "e">>
      [] OTHER -> cell.s

\* value == k  for an int k
PyEq(cell, k) ==
    \/ cell.t = "int" /\ cell.n = k
    \/ cell.t = "dec" /\ cell.n = k * 100

\* value in (None, "")
IsEmptyValue(cell) ==
    \/ cell.t = "none"
    \/ cell.t = "str" /\ cell.s = <<>>
    \/ cell.t = "text" /\ cell.s = <<"">>

SheetNames(wb) == {wb[i].title : i \in 1..Len(wb)}

INVALID_SHEET_CHARS == {":", "\\", "/", "?", "*", "[", "]"}
MAX_SHEET_LEN == 31

\* s[:n]
Take(s, n) == SubSeq(s, 1, IF n < Len(s) THEN (IF n < 0 THEN 0 ELSE n) ELSE Len(s))

NotInvalidSheetChar(c) == c \notin INVALID_SHEET_CHARS

sanitize_sheet_name(name) ==
    LET s1 == StripChars(name, Whitespace)
        s2 == SelectSeq(s1, NotInvalidSheetChar)
        s3 == IF s2 = <<>> THEN <<"S", "h", "e", "e", "t">> ELSE s2
    IN  Take(s3, MAX_SHEET_LEN)

\* The while loop of unique_sheet_name, from suffix _n on.
RECURSIVE NextFreeName(_, _, _)
NextFreeName(names, base, n) ==
    LET suffix == <<"_">> \o Digits(n)
        max_base == MAX_SHEET_LEN - Len(suffix)
        candidate == Take(Take(base, max_base) \o suffix, MAX_SHEET_LEN)
    IN  IF candidate \notin names THEN candidate
        ELSE NextFreeName(names, base, n + 1)

sheet_name_as_given(wb, base) == sanitize_sheet_name(base)

unique_sheet_name(wb, base) ==
    LET b == sanitize_sheet_name(base)
    IN  IF b \notin SheetNames(wb) THEN b ELSE NextFreeName(SheetNames(wb), b, 2)

BASE_HEADERS == <<"Date", "Bill number", "ID", "Vendor", "Service/ concept",
                  "CC", "GL account", "Subtotal assigned by CC", "% IVA",
                  "IVA assigned by CC", "Total assigned by CC">>

EXTRA_HEADERS_BY_TABLE ==
    (CIRION_TABLE :> <<"Bandwidth (MBPS)">>) @@
    (SIPTRUNK_TABLE :> <<"Bandwidth (MBPS)", "Troncal SIP (channels)">>) @@
    (SBC_TABLE :> <<"Siptrunk (MBPS)", "Licences (Quantity)", "Siptrunk price",
                    "Licences price">>) @@
    (MOVISTAR_TABLE :> <<"Phone lines quantity">>) @@
    (MOBILE_TABLE :> <<"Phone lines quantity">>)

get_table_headers(table_name) ==
    BASE_HEADERS \o (IF table_name \in DOMAIN EXTRA_HEADERS_BY_TABLE
                     THEN EXTRA_HEADERS_BY_TABLE[table_name] ELSE <<>>)

\* TableInfo of the table of a sheet (find_table, lines 204-216).
TableInfo(sheet) ==
    [sheet_name |-> sheet.title,
     table_name |-> sheet.table[1],
     min_col |-> 1,
     min_row |-> 1,
     max_col |-> Len(sheet.headers),
     max_row |-> sheet.max_row,
     headers |-> sheet.headers]

SetMin(S) == CHOOSE x \in S : \A y \in S : x <= y
SetMax(S) == CHOOSE x \in S : \A y \in S : x >= y

\* ensure_table_exists from line 234 on: the sheet named sheet_final is
\* taken when the workbook has it and created otherwise.
AddTable(wb, table_name, headers, sheet_final) ==
    LET old == {i \in 1..Len(wb) : wb[i].title = sheet_final}
        ws == IF old # {}
              THEN [wb[SetMin(old)] EXCEPT
                        !.headers = IF @ = <<>> THEN headers ELSE @,
                        !.table = Some(table_name),
                        !.max_row = 2]
              ELSE [title |-> sheet_final, table |-> Some(table_name),
                    max_row |-> 2, headers |-> headers, rows |-> <<>>]
    IN  IF old # {}
        THEN [wb |-> [wb EXCEPT ![SetMin(old)] = ws], ws |-> SetMin(old),
              info |-> [TableInfo(ws) EXCEPT !.max_col = Len(headers),
                                             !.headers = headers]]
        ELSE [wb |-> Append(wb, ws), ws |-> Len(wb) + 1, info |-> TableInfo(ws)]

ensure_table_exists(wb, table_name, sheet_name) ==
    AddTable(wb, table_name, get_table_headers(table_name),
             unique_sheet_name(wb, sanitize_sheet_name(sheet_name)))

\* The sheets whose tables include table_name, in workbook order.
TableSheets(wb, table_name) == {i \in 1..Len(wb) : wb[i].table = Some(table_name)}

find_table(wb, table_name) ==
    IF TableSheets(wb, table_name) # {}
    THEN LET i == SetMin(TableSheets(wb, table_name))
         IN  [wb |-> wb, ws |-> i, info |-> TableInfo(wb[i])]
    ELSE ensure_table_exists(wb, table_name, table_name)

\* header -> absolute column; a repeated header keeps its last column.
_header_to_col_index(info) ==
    [h \in {info.headers[i] : i \in 1..Len(info.headers)} |->
        info.min_col + SetMax({i \in 1..Len(info.headers) : info.headers[i] = h}) - 1]

\* ws.cell(row, column).value
CellAt(ws, r, c) ==
    IF (r - 1) \in 1..Len(ws.rows) /\ c \in 1..Len(ws.rows[r - 1])
    THEN ws.rows[r - 1][c]
    ELSE NoneCell

\* The cells of sheet row r over the columns of the table.
RowAt(ws, r, min_col, max_col) == [c \in min_col..max_col |-> CellAt(ws, r, c)]

RemoveAt(seq, i) ==
    IF i \in 1..Len(seq) THEN SubSeq(seq, 1, i - 1) \o SubSeq(seq, i + 1, Len(seq))
    ELSE seq

\* ws.delete_rows(r, 1): the rows below move up.
delete_rows(ws, r) == [ws EXCEPT !.rows = RemoveAt(@, r - 1)]

\* The elements of a finite set of integers, ascending.
RECURSIVE Ascending(_)
Ascending(S) == IF S = {} THEN <<>>
                ELSE <<SetMin(S)>> \o Ascending(S \ {SetMin(S)})

Forward(seq) == seq

\* reversed(rows_to_delete)
Reversed(seq) == [i \in 1..Len(seq) |-> seq[Len(seq) + 1 - i]]

RECURSIVE DeleteEach(_, _)
DeleteEach(ws, rs) ==
    IF rs = <<>> THEN ws ELSE DeleteEach(delete_rows(ws, Head(rs)), Tail(rs))

IsDuplicateNever(cell_id, cell_bill, vendor_id, bill_number) == FALSE

\* writer.py:353
IsDuplicate(cell_id, cell_bill, vendor_id, bill_number) ==
    PyEq(cell_id, vendor_id) /\ StripChars(PyStr(cell_bill), Whitespace) = bill_number

KeepRef(ws, info, deleted) == ws

\* writer.py:361-366: the ref of the table ends deleted rows higher.
ShrinkRef(ws, info, deleted) ==
    IF deleted > 0 THEN [ws EXCEPT !.max_row = info.max_row - deleted] ELSE ws

delete_duplicates_in_table(ws, info, vendor_id, bill_number) ==
    LET col_map == _header_to_col_index(info)
    IN  IF "ID" \notin DOMAIN col_map \/ "Bill number" \notin DOMAIN col_map
        THEN [status |-> "ExcelWriteError", ws |-> ws, deleted |-> 0]
        ELSE LET id_col == col_map["ID"]
                 bill_col == col_map["Bill number"]
                 rows_to_delete == Ascending(
                     {r \in (info.min_row + 1)..info.max_row :
                         IsDuplicate(CellAt(ws, r, id_col), CellAt(ws, r, bill_col),
                                     vendor_id, bill_number)})
                 ws1 == DeleteEach(ws, Reversed(rows_to_delete))
                 deleted == Len(rows_to_delete)
             IN  [status |-> "ok",
                  ws |-> ShrinkRef(ws1, info, deleted),
                  deleted |-> deleted]

_is_row_empty(ws, row, min_col, max_col) ==
    \A col \in min_col..max_col : IsEmptyValue(CellAt(ws, row, col))

\* ws.cell(row=new_row, column=col_map[header], value=value) for every item
\* of row_values; the cells of the other columns keep their values.
WriteRow(ws, info, new_row, row_values, col_map) ==
    LET width == SetMax({info.max_col} \cup {Len(ws.rows[i]) : i \in 1..Len(ws.rows)})
        blank == [c \in 1..width |-> NoneCell]
        padded == ws.rows \o [i \in 1..(new_row - 1 - Len(ws.rows)) |-> blank]
        old == [c \in 1..width |-> IF c \in 1..Len(padded[new_row - 1])
                                   THEN padded[new_row - 1][c] ELSE NoneCell]
        written == [c \in 1..width |->
                      IF \E h \in DOMAIN row_values : col_map[h] = c
                      THEN row_values[CHOOSE h \in DOMAIN row_values : col_map[h] = c]
                      ELSE old[c]]
    IN  [ws EXCEPT !.rows = [padded EXCEPT ![new_row - 1] = written]]

\* The loop of append_rows_to_table (lines 409-431) from row k of rows on.
RECURSIVE WriteRows(_, _, _, _, _, _)
WriteRows(ws, info, rows, k, insert_row, col_map) ==
    IF k > Len(rows) THEN ws
    ELSE WriteRows(WriteRow(ws, info, insert_row, rows[k], col_map),
                   info, rows, k + 1, insert_row + 1, col_map)

append_rows_to_table(ws, info, rows) ==
    LET col_map == _header_to_col_index(info)
        first_data_row == info.min_row + 1
        at_first == info.max_row >= first_data_row
                    /\ _is_row_empty(ws, first_data_row, info.min_col, info.max_col)
        insert_row == IF at_first THEN first_data_row ELSE info.max_row + 1
        last_data_row0 == IF at_first THEN first_data_row - 1 ELSE info.max_row
        last_data_row == IF rows = <<>> THEN last_data_row0
                         ELSE insert_row + Len(rows) - 1
        ws1 == WriteRows(ws, info, rows, 1, insert_row, col_map)
    IN  IF \E k \in 1..Len(rows) : \E h \in DOMAIN rows[k] : h \notin DOMAIN col_map
        THEN [status |-> "ExcelWriteError", ws |-> ws]
        ELSE [status |-> "ok",
              ws |-> [ws1 EXCEPT !.max_row =
                         IF last_data_row >= first_data_row THEN last_data_row
                         ELSE first_data_row]]

(***************************************************************************)
(* excel/writer.py: backups and retention.                                 *)
(*                                                                         *)
(* Time is in seconds.  A file of the backup directory has a name          *)
(* <stem><tag><timestamp><suffix>, a modification time and a content; the  *)
(* directory is the set of its files, one per name.                        *)
(***************************************************************************)
DAY == 86400

FileName(tag, ts, suffix) == [tag |-> tag, ts |-> ts, suffix |-> suffix]

\* backup_dir / f"{excel_path.stem}_backup_{ts}{excel_path.suffix}"
BackupName(now) == FileName("_backup_", now, ".xlsx")

Exists(dir, path) == \E f \in dir : f.name = path

\* A copy that creates the file and copies nothing into it.
backup_excel_empty_copy(ledger, dir, now) ==
    LET dst == [name |-> BackupName(now), mtime |-> ledger.mtime, content |-> <<>>]
    IN  [path |-> dst.name,
         dir |-> {f \in dir : f.name # dst.name} \cup {dst}]

\* shutil.copy2 keeps the modification time of the source and replaces a
\* file of the same name.
backup_excel(ledger, dir, now) ==
    LET dst == [name |-> BackupName(now), mtime |-> ledger.mtime, content |-> ledger.wb]
    IN  [path |-> dst.name,
         dir |-> {f \in dir : f.name # dst.name} \cup {dst}]

\* glob("*_backup_*.*") and suffix.lower() in {".xlsx", ".xlsm"}
IsBackupFile(f) ==
    f.name.tag = "_backup_" /\ lower(f.name.suffix) \in {".xlsx", ".xlsm"}

IsExpiredOrAtCutoff(mtime, cutoff) == mtime <= cutoff

\* writer.py:160
IsExpired(mtime, cutoff) == mtime < cutoff

\* backups.sort(key=mtime, reverse=True): a stable sort of the glob order.
RECURSIVE InsertByMtime(_, _)
InsertByMtime(sorted, f) ==
    IF sorted = <<>> THEN <<f>>
    ELSE IF Head(sorted).mtime >= f.mtime
         THEN <<Head(sorted)>> \o InsertByMtime(Tail(sorted), f)
         ELSE <<f>> \o sorted

RECURSIVE SortNewestFirst(_)
SortNewestFirst(files) ==
    IF files = <<>> THEN <<>>
    ELSE InsertByMtime(SortNewestFirst(SubSeq(files, 1, Len(files) - 1)),
                       files[Len(files)])

IsBackupIn(dir, f) == f \in dir /\ IsBackupFile(f)

\* A pass that stops at the first unlink that raises, seen from a directory
\* where the failing file comes first.
UnlinkedNoneOnFailure(files, fails) ==
    IF \E f \in files : f.name \in fails THEN {} ELSE files

\* try: p.unlink() / except Exception: logger.warning(...): the files of a
\* pass that are deleted are those whose unlink does not raise.
Unlinked(files, fails) == {f \in files : f.name \notin fails}

\* glob_order lists the files of the directory in the order glob yields
\* them; unlink raises for the files named in fails, which is logged and
\* skipped.
prune_backups(dir, now, keep_last_n, keep_days, glob_order, fails) ==
    LET cutoff == now - keep_days * DAY
        aged == Unlinked({f \in dir : IsBackupFile(f) /\ IsExpired(f.mtime, cutoff)},
                         fails)
        dir1 == dir \ aged
        InDir1(f) == IsBackupIn(dir1, f)
        backups == SortNewestFirst(SelectSeq(glob_order, InDir1))
        excess == SubSeq(backups, keep_last_n + 1, Len(backups))
    IN  dir1 \ Unlinked({excess[i] : i \in 1..Len(excess)}, fails)

\* The orders in which glob can list a directory.
GlobOrders(dir) ==
    {o \in [1..Cardinality(dir) -> dir] : \A i, j \in 1..Cardinality(dir) :
                                              i # j => o[i] # o[j]}

(***************************************************************************)
(* excel/writer.py: apply_transaction.                                     *)
(***************************************************************************)
RETENTION_KEEP_LAST_N == 30
RETENTION_KEEP_DAYS == 30

NeedsBackupOnlyNone(backup_path, dir) == backup_path = None

\* writer.py:469
NeedsBackup(backup_path, dir) == backup_path = None \/ ~Exists(dir, backup_path[1])

\* The for loop of lines 488-503 from entry k of table_to_rows on; the
\* workbook in memory and the deletions per table.  Found, Deleted, Refound
\* and Appended are the body of the loop after lines 489, 491, 495 and 496.
RECURSIVE TableLoop(_, _, _, _, _, _)
TableLoop(wb, table_to_rows, k, vendor_id, bill_number, deleted_by_table) ==
    IF k > Len(table_to_rows)
    THEN [status |-> "ok", at |-> "loop", wb |-> wb, deleted_by_table |-> deleted_by_table]
    ELSE LET table_name == table_to_rows[k].table_name
             rows == table_to_rows[k].rows
             Appended(f2, d, a) ==
                 IF a.status # "ok"
                 THEN [status |-> a.status, at |-> "append", wb |-> f2.wb,
                       deleted_by_table |-> deleted_by_table]
                 ELSE TableLoop([f2.wb EXCEPT ![f2.ws] = a.ws], table_to_rows,
                                k + 1, vendor_id, bill_number,
                                Append(deleted_by_table,
                                       [table_name |-> table_name,
                                        deleted |-> d.deleted]))
             Refound(f2, d) ==
                 Appended(f2, d, append_rows_to_table(f2.wb[f2.ws], f2.info, rows))
             Deleted(f1, d) ==
                 IF d.status # "ok"
                 THEN [status |-> d.status, at |-> "delete", wb |-> f1.wb,
                       deleted_by_table |-> deleted_by_table]
                 ELSE Refound(find_table([f1.wb EXCEPT ![f1.ws] = d.ws], table_name), d)
             Found(f1) ==
                 Deleted(f1, delete_duplicates_in_table(f1.wb[f1.ws], f1.info,
                                                        vendor_id, bill_number))
         IN  Found(find_table(wb, table_name))

wb_save_torn(ledger, wb, now, locked) ==
    [status |-> IF locked THEN "ExcelWriteError" ELSE "ok",
     ledger |-> [wb |-> wb, mtime |-> now]]

\* wb.save(excel_path), lines 505-512: a locked file rejects the write.
wb_save(ledger, wb, now, locked) ==
    IF locked THEN [status |-> "ExcelWriteError", ledger |-> ledger]
    ELSE [status |-> "ok", ledger |-> [wb |-> wb, mtime |-> now]]

\* args: vendor_id, bill_number, table_to_rows (the items of the dict, in
\* order), backup_path, retention_keep_last_n, retention_keep_days.
\* env: whether the ledger is locked when it is opened and when it is saved,
\* the order of glob and the files unlink fails on.
apply_transaction(ledger, dir, now, args, env) ==
    LET need == NeedsBackup(args.backup_path, dir)
        backup_path == IF need THEN Some(backup_excel(ledger, dir, now).path)
                       ELSE args.backup_path
        ran == [backup_excel |-> need, prune_backups |-> need]
        Fail(e, at, file, dir1) ==
            [status |-> e, at |-> at, returned |-> None,
             ledger |-> file, dir |-> dir1, ran |-> ran]
        Saved(loop, saved, dir1) ==
            IF saved.status # "ok" THEN Fail(saved.status, "save", saved.ledger, dir1)
            ELSE [status |-> "ok", at |-> "return",
                  returned |-> Some([backup_path |-> backup_path[1],
                                     deleted_by_table |-> loop.deleted_by_table,
                                     backup_created |-> need]),
                  ledger |-> saved.ledger, dir |-> dir1, ran |-> ran]
        Looped(loop, dir1) ==
            IF loop.status # "ok" THEN Fail(loop.status, loop.at, ledger, dir1)
            ELSE Saved(loop, wb_save(ledger, loop.wb, now, env.locked_at_save), dir1)
        Opened(dir1) ==
            IF env.locked_at_open THEN Fail("ExcelWriteError", "open", ledger, dir1)
            ELSE Looped(TableLoop(ledger.wb, args.table_to_rows, 1, args.vendor_id,
                                  args.bill_number, <<>>), dir1)
    IN  Opened(IF need
               THEN prune_backups(backup_excel(ledger, dir, now).dir, now,
                                  args.retention_keep_last_n,
                                  args.retention_keep_days, env.glob_order,
                                  env.fails)
               ELSE dir)

(***************************************************************************)
(* Inputs of the allocation validator.                                     *)
(***************************************************************************)
\* Subtotals with two fractional digits (utils/money.py:48), around zero,
\* around 100.00 and around the fixed part of the Claro siptrunk schedule.
SubtotalBases == {-50000, 0, 10000, 50000}
Subtotals == {b + d : b \in SubtotalBases, d \in -MaxCents..MaxCents}

\* Percentages in hundredths of a percent.
PercentValues == {0, 1, 3333, 3334, 5000, 10000}
Percents == {None} \cup {Some(p) : p \in PercentValues}

\* Requested amounts in cents.
AmountValues == {-1, 0, 1, 5000, 10000}
Amounts == {None} \cup {Some(a) : a \in AmountValues}

CC_A == 7475036
\* GL account codes exceed 32 bits and are kept as digit strings.
GL_A == "7648100000"

PercentAllocation(p) ==
    [concept |-> None, cc |-> CC_A, gl_account |-> GL_A, percent |-> p, amount |-> None]

AmountAllocation(a) ==
    [concept |-> None, cc |-> CC_A, gl_account |-> GL_A, percent |-> None, amount |-> a]

SeqsUpTo(S, n) == UNION {[1..k -> S] : k \in 0..n}

AllocationLists(mode) ==
    IF mode = "amount"
    THEN SeqsUpTo({AmountAllocation(a) : a \in Amounts}, MaxAllocs)
    ELSE SeqsUpTo({PercentAllocation(p) : p \in Percents}, MaxAllocs)

Modes == {"percent", "amount", "none"}

AllocIdle == [pc |-> "idle", subtotal |-> 0, mode |-> "none",
              allocations |-> <<>>, out |-> Raised("none")]

(***************************************************************************)
(* Inputs of the vendor strategies.                                        *)
(***************************************************************************)
MaxRuleAllocs == 2

\* Vendors_table: (ID, Vendor); the last vendor has no strategy of its own.
Vendors == {
    [vendor_id |-> CLARO_ID,    vendor_name |-> <<"C", "O", "N", "E", "C", "E", "L">>],
    [vendor_id |-> CIRION_ID,   vendor_name |-> <<"C", "I", "R", "I", "O", "N">>],
    [vendor_id |-> AKROS_ID,    vendor_name |-> <<"A", "K", "R", "O", "S">>],
    [vendor_id |-> EIKON_ID,    vendor_name |-> <<"E", "I", "K", "O", "N", " ", "S", "A">>],
    [vendor_id |-> MOVISTAR_ID, vendor_name |-> <<"O", "T", "E", "C", "E", "L">>],
    [vendor_id |-> PUNTONET_ID, vendor_name |-> <<"P", "U", "N", "T", "O", "N", "E", "T">>],
    [vendor_id |-> SIPBOX_ID,   vendor_name |-> <<"S", "I", "P", "B", "O", "X">>],
    [vendor_id |-> DUMMY_ID,    vendor_name |-> <<"D", "U", "M", "M", "Y">>],
    [vendor_id |-> 1300001,     vendor_name |-> <<"S", "u", "r", "t", "i", " ", " ", "S", ".", "A", ".">>]}

DefaultConcept(vendor_id) ==
    CASE vendor_id = CIRION_ID -> CIRION_DEFAULT_CONCEPT
      [] vendor_id = AKROS_ID -> AKROS_DEFAULT_CONCEPT
      [] vendor_id = MOVISTAR_ID -> MOVISTAR_DEFAULT_CONCEPT
      [] vendor_id = EIKON_ID -> "Domains (annual)"
      [] vendor_id = PUNTONET_ID -> PUNTONET_DEFAULT_CONCEPT
      [] vendor_id = SIPBOX_ID -> SIPBOX_DEFAULT_CONCEPT
      [] OTHER -> "Claro Siptrunk"

Concepts(vendor_id) ==
    {None, Some(DefaultConcept(vendor_id)), Some(OTRO), Some("Soporte ")}

ServiceTypes(vendor_id) ==
    IF vendor_id = CLARO_ID
    THEN {None, Some("siptrunk"), Some("sbc"), Some("mobile"), Some(" SBC "), Some("fibra")}
    ELSE {None}

ExtrasChoices == {
    NoExtras,
    [NoExtras EXCEPT !["cc"] = Some(1100036)],
    [NoExtras EXCEPT !["gl_account"] = Some("7418000000")],
    [NoExtras EXCEPT !["cc"] = Some(1100036), !["gl_account"] = Some("7418000000"),
                     !["bandwidth_mbps"] = Some(100)]}

\* Splits of the split editor: percentage lists, and amount lists built
\* around the subtotal (exact, one cent short, one cent over, five over);
\* and an allocation list left over without a mode.
RulePercents == {Some(3333), Some(5000), Some(6667)}

RuleSplits(subtotal) ==
    {[mode |-> None, allocations |-> <<>>],
     [mode |-> None, allocations |-> <<PercentAllocation(Some(5000))>>]} \cup
    {[mode |-> Some("percent"), allocations |-> l] :
        l \in SeqsUpTo({PercentAllocation(x) : x \in RulePercents}, MaxRuleAllocs)} \cup
    {[mode |-> Some("amount"), allocations |-> l] :
        l \in {<<AmountAllocation(Some(subtotal))>>,
               <<AmountAllocation(Some(1)), AmountAllocation(Some(subtotal - 2))>>,
               <<AmountAllocation(Some(subtotal)), AmountAllocation(Some(1))>>,
               <<AmountAllocation(Some(subtotal + 5))>>}}

IvaRates == {1500}

\* 15 percent; for Claro mobile also 12 percent, at which moving the last
\* line by a cent changes its tax.
IvaRatesOf(service_type) ==
    IF service_type = Some("mobile") THEN IvaRates \cup {1200} ELSE IvaRates

BILL_472 == <<"0", "0", "0", "0", "0", "0", "4", "7", "2">>

RuleIdle == [pc |-> "idle", invoice |-> None, fn |-> "none", out |-> RaisedLines("none")]

RuleVendorIds == {CLARO_ID, CIRION_ID, AKROS_ID, EIKON_ID, MOVISTAR_ID,
                  PUNTONET_ID, SIPBOX_ID, DUMMY_ID}

\* A strategy function applied to the invoice of its vendor.
Apply(fn, vendor_id, result) ==
    /\ rule.pc = "call"
    /\ rule.invoice.vendor_id = vendor_id
    /\ rule' = [rule EXCEPT !.pc = "done", !.fn = fn, !.out = result]
    /\ UNCHANGED <<alloc, del, ret, excel_file, backup_dir, clock, txn, ui, util, app>>

CallCirion == Apply("build_lines_for_cirion", CIRION_ID, build_lines_for_cirion(rule.invoice))
CallAkros == Apply("build_lines_for_akros", AKROS_ID, build_lines_for_akros(rule.invoice))
CallMovistar == Apply("build_lines_for_movistar", MOVISTAR_ID, build_lines_for_movistar(rule.invoice))
CallEikon == Apply("build_lines_for_eikon", EIKON_ID, build_lines_for_eikon(rule.invoice))
CallPuntonet == Apply("build_lines_for_puntonet", PUNTONET_ID, build_lines_for_puntonet(rule.invoice))
CallSipbox == Apply("build_lines_for_sipbox", SIPBOX_ID, build_lines_for_sipbox(rule.invoice))
CallClaro == Apply("build_lines_for_claro", CLARO_ID, build_lines_for_claro(rule.invoice))
\* The generic builder, for a vendor without a strategy of its own.
CallGeneric ==
    /\ rule.pc = "call"
    /\ rule.invoice.vendor_id \notin RuleVendorIds
    /\ rule' = [rule EXCEPT !.pc = "done", !.fn = "build_lines_generic",
                            !.out = build_lines_generic(rule.invoice)]
    /\ UNCHANGED <<alloc, del, ret, excel_file, backup_dir, clock, txn, ui, util, app>>
CallDummy == Apply("build_lines_for_dummy", DUMMY_ID, build_lines_for_dummy(rule.invoice))

\* registry.build_lines, the entry point of the rule engine.
CallBuildLines ==
    /\ rule.pc = "call"
    /\ rule' = [rule EXCEPT !.pc = "done", !.fn = "build_lines",
                            !.out = build_lines(rule.invoice)]
    /\ UNCHANGED <<alloc, del, ret, excel_file, backup_dir, clock, txn, ui, util, app>>

(***************************************************************************)
(* Inputs of the writer: ledger rows, tables, transactions.                *)
(***************************************************************************)
MaxRows == 3
MaxFiles == 4
MaxKeep == 2
MaxCalls == 2
MaxTicks == 1

BILL_473 == <<"0", "0", "0", "0", "0", "0", "4", "7", "3">>

\* A data row of a ledger table with the base columns.
BaseRow(date, bill_cell, id_cell, concept, cents) ==
    <<DateCell(date), bill_cell, id_cell, StrCell(<<"O", "T", "E", "C", "E", "L">>), TextCell(concept),
      IntCell(CC_A), BigIntCell(GL_A), DecCell(cents), DecCell(15),
      DecCell(q2(cents * 15, 100)), DecCell(cents + q2(cents * 15, 100))>>

MovistarRow(date, bill_cell, id_cell, concept, cents) ==
    BaseRow(date, bill_cell, id_cell, concept, cents) \o <<IntCell(MOVISTAR_DEFAULT_LINES)>>

\* Rows as a ledger kept by hand and by the program holds them: the bill
\* number as text, as text with blanks around it, or typed as a number; the
\* vendor id as a number or as text.
LedgerRows == {
    MovistarRow("2026-01-15", StrCell(BILL_472), IntCell(MOVISTAR_ID), "Plan A", 10000),
    MovistarRow("2026-02-15", StrCell(BILL_472), IntCell(MOVISTAR_ID), "Plan B", 20000),
    MovistarRow("2026-01-15", StrCell(BILL_472), IntCell(CIRION_ID), "Plan C", 30000),
    MovistarRow("2026-01-15", StrCell(BILL_473), IntCell(MOVISTAR_ID), "Plan D", 40000),
    MovistarRow("2026-01-15", StrCell(<<" ", "0", "0", "0", "0", "0", "0", "4", "7", "2", " ">>), IntCell(MOVISTAR_ID), "Plan E", 50000),
    MovistarRow("2026-01-15", IntCell(472), IntCell(MOVISTAR_ID), "Plan F", 60000),
    MovistarRow("2026-01-15", StrCell(BILL_472), StrCell(<<"1", "2", "6", "0", "1", "7", "7">>), "Plan G", 70000)}

\* The sheet of a table with the given data rows; without rows, the table
\* as ensure_table_exists leaves it (ref A1:<last>2, row 2 blank).
TableSheet(table_name, headers, rows) ==
    [title |-> sanitize_sheet_name(table_name), table |-> Some(table_name),
     max_row |-> IF rows = <<>> THEN 2 ELSE Len(rows) + 1,
     headers |-> headers, rows |-> rows]

\* A sheet without a table.
PlainSheet(title) ==
    [title |-> title, table |-> None, max_row |-> 0, headers |-> <<>>, rows |-> <<>>]

LEGACY_TABLE == <<"L", "e", "g", "a", "c", "y", "_", "t", "a", "b", "l", "e">>

\* A table kept by hand without the ID column.
LegacySheet ==
    TableSheet(LEGACY_TABLE, <<"Date", "Bill number", "Vendor", "Total">>,
               <<<<DateCell("2025-12-01"), StrCell(BILL_472), StrCell(<<"O", "T", "E", "C", "E", "L">>),
                   DecCell(11500)>>>>)

(***************************************************************************)
(* delete_duplicates_in_table on its own.                                  *)
(***************************************************************************)
DelIdle == [pc |-> "idle", ws |-> PlainSheet(<<>>), vendor_id |-> 0,
            bill_number |-> <<>>,
            out |-> [status |-> "none", ws |-> PlainSheet(<<>>), deleted |-> 0]]

DeleteSheets ==
    {TableSheet(MOVISTAR_TABLE, get_table_headers(MOVISTAR_TABLE), rows) :
        rows \in SeqsUpTo(LedgerRows, MaxRows)}
    \cup {LegacySheet}

\* delete_duplicates_in_table(ws, info, vendor_id, bill_number)
DeleteDuplicates ==
    /\ del.pc = "call"
    /\ del' = [del EXCEPT !.pc = "done",
                          !.out = delete_duplicates_in_table(
                                      del.ws, TableInfo(del.ws),
                                      del.vendor_id, del.bill_number)]
    /\ UNCHANGED <<alloc, rule, ret, excel_file, backup_dir, clock, txn, ui, util, app>>

(***************************************************************************)
(* prune_backups on its own.                                               *)
(***************************************************************************)
NOW0 == 40 * DAY

EmptyWorkbook == <<>>

BackupFile(tag, ts, suffix, mtime) ==
    [name |-> FileName(tag, ts, suffix), mtime |-> mtime, content |-> EmptyWorkbook]

\* Files around the 30 day and the 1 day cutoff, two of one age, one whose
\* suffix is in capitals, and two files that are no backups.
DirFiles == {
    BackupFile("_backup_", 1, ".xlsx", NOW0 - 30 * DAY - 1),
    BackupFile("_backup_", 2, ".xlsx", NOW0 - 30 * DAY),
    BackupFile("_backup_", 3, ".xlsx", NOW0 - DAY),
    BackupFile("_backup_", 4, ".XLSX", NOW0 - DAY),
    BackupFile("_backup_", 5, ".xlsx", NOW0 - 60),
    BackupFile("_copy_", 6, ".xlsx", NOW0 - 31 * DAY),
    BackupFile("_backup_", 7, ".bak", NOW0 - 31 * DAY)}

Dirs == {d \in SUBSET DirFiles : Cardinality(d) <= MaxFiles}

RetIdle == [pc |-> "idle", dir |-> {}, keep_last_n |-> 0, keep_days |-> 0,
            fails |-> {}, out |-> {}]

\* prune_backups(backup_dir, keep_last_n, keep_days)
PruneBackups ==
    /\ ret.pc = "call"
    /\ \E glob_order \in GlobOrders(ret.dir) :
        ret' = [ret EXCEPT !.pc = "done",
                           !.out = prune_backups(ret.dir, clock, ret.keep_last_n,
                                                 ret.keep_days, glob_order, ret.fails)]
    /\ UNCHANGED <<alloc, rule, del, excel_file, backup_dir, clock, txn, ui, util, app>>

(***************************************************************************)
(* apply_transaction on a ledger file and its backup directory.            *)
(***************************************************************************)
VendorsSheet == PlainSheet(<<"V", "e", "n", "d", "o", "r", "s">>)

MovistarSheet(rows) == TableSheet(MOVISTAR_TABLE, get_table_headers(MOVISTAR_TABLE), rows)

Row472 == MovistarRow("2026-01-15", StrCell(BILL_472), IntCell(MOVISTAR_ID), "Plan A", 10000)
Row472Other == MovistarRow("2026-01-15", StrCell(BILL_472), IntCell(CIRION_ID), "Plan C", 30000)
Row473 == MovistarRow("2026-01-15", StrCell(BILL_473), IntCell(MOVISTAR_ID), "Plan D", 40000)
Row472Padded ==
    MovistarRow("2026-01-15", StrCell(<<" ", "0", "0", "0", "0", "0", "0", "4", "7", "2", " ">>), IntCell(MOVISTAR_ID), "Plan E", 50000)

\* Ledgers: no table yet; a Movistar table with three bills; the same with
\* a hand-kept table, a sheet that has the name of a table to come, and a
\* bill number typed with blanks.
Workbooks == {
    <<VendorsSheet>>,
    <<VendorsSheet, MovistarSheet(<<Row472Other, Row472, Row473>>)>>,
    <<VendorsSheet, PlainSheet(DUMMY_TABLE),
      MovistarSheet(<<Row472, Row472Padded, Row473, Row472>>), LegacySheet>>}

Ledgers == {[wb |-> w, mtime |-> NOW0 - DAY] : w \in Workbooks}

BackupDirs == {
    {},
    {[name |-> BackupName(NOW0 - 31 * DAY), mtime |-> NOW0 - 32 * DAY,
      content |-> <<VendorsSheet>>],
     [name |-> BackupName(NOW0 - DAY), mtime |-> NOW0 - 2 * DAY,
      content |-> <<VendorsSheet>>]}}

\* A row of a transaction: header -> value.
RowValues(headers, cells) ==
    [h \in {headers[i] : i \in 1..Len(headers)} |->
        cells[CHOOSE i \in 1..Len(headers) : headers[i] = h]]

TxnRow(table_name, vendor_id, bill_number, date, concept, cents) ==
    RowValues(get_table_headers(table_name),
              BaseRow(date, StrCell(bill_number), IntCell(vendor_id), concept, cents)
              \o [i \in 1..(Len(get_table_headers(table_name)) - Len(BASE_HEADERS)) |->
                     IntCell(MOVISTAR_DEFAULT_LINES)])

\* The batches of a transaction with key (vendor_id, bill_number): one row,
\* two other rows, two tables, two tables of which the second is handed a
\* column it does not have, a table without the ID column, and a table
\* that is handed no row.
Batches(vendor_id, bill_number) ==
    LET x == TxnRow(MOVISTAR_TABLE, vendor_id, bill_number, "2026-03-01", "Plan X", 10000)
        y == TxnRow(MOVISTAR_TABLE, vendor_id, bill_number, "2026-03-02", "Plan Y", 6000)
        z == TxnRow(MOVISTAR_TABLE, vendor_id, bill_number, "2026-03-02", "Plan Z", 4000)
        d == TxnRow(DUMMY_TABLE, vendor_id, bill_number, "2026-03-01", "Dummy", 10000)
        bad == TxnRow(DUMMY_TABLE, vendor_id, bill_number, "2026-03-01", "Dummy", 10000)
               @@ ("Notes" :> TextCell("n/a"))
        l == TxnRow(LEGACY_TABLE, vendor_id, bill_number, "2026-03-01", "Legacy", 10000)
    IN  {<<[table_name |-> MOVISTAR_TABLE, rows |-> <<x>>]>>,
         <<[table_name |-> MOVISTAR_TABLE, rows |-> <<y, z>>]>>,
         <<[table_name |-> MOVISTAR_TABLE, rows |-> <<x>>],
           [table_name |-> DUMMY_TABLE, rows |-> <<d>>]>>,
         <<[table_name |-> MOVISTAR_TABLE, rows |-> <<y, z>>],
           [table_name |-> DUMMY_TABLE, rows |-> <<bad>>]>>,
         <<[table_name |-> DUMMY_TABLE, rows |-> <<d>>],
           [table_name |-> LEGACY_TABLE, rows |-> <<l>>]>>,
         <<[table_name |-> DUMMY_TABLE, rows |-> <<>>]>>}

\* A backup path of an earlier session whose file is gone.
StalePath == BackupName(NOW0 - 90 * DAY)

NoArgs == [vendor_id |-> 0, bill_number |-> <<>>, table_to_rows |-> <<>>,
           backup_path |-> None, retention_keep_last_n |-> 0,
           retention_keep_days |-> 0]

NoEnv == [locked_at_open |-> FALSE, locked_at_save |-> FALSE,
          glob_order |-> <<>>, fails |-> {}]

NoResult == [status |-> "none", at |-> "none", returned |-> None,
             ledger |-> [wb |-> <<>>, mtime |-> 0], dir |-> {},
             ran |-> [backup_excel |-> FALSE, prune_backups |-> FALSE]]

TxnIdle == [n |-> 0, args |-> NoArgs, env |-> NoEnv,
            pre |-> [ledger |-> [wb |-> <<>>, mtime |-> 0], dir |-> {}, now |-> 0],
            res |-> NoResult, prev |-> None]

\* No utility function has been called.
UtilIdle == [pc |-> "idle", fn |-> "none", arg |-> <<>>, out |-> <<>>, again |-> <<>>]

\* append_rows_to_table has not been called.
AppIdle == [pc |-> "idle", ws |-> PlainSheet(<<>>), rows |-> <<>>,
            out |-> [status |-> "none", ws |-> PlainSheet(<<>>)]]

\* The main window after __init__ (main_window.py:122, 136, 137, 179),
\* with the saves it has attempted and the backups they have made.
UiStart == [bill_var |-> <<>>, subtotal_var |-> "", preview_lines |-> <<>>,
            session_backup_path |-> None, saves |-> 0, made |-> <<>>]

DiskIdle ==
    /\ excel_file = [wb |-> <<>>, mtime |-> 0]
    /\ backup_dir = {}
    /\ clock = NOW0
    /\ txn = TxnIdle
    /\ ui = UiStart
    /\ util = UtilIdle
    /\ app = AppIdle

Init ==
    /\ alloc = AllocIdle
    /\ rule = RuleIdle
    /\ del = DelIdle
    /\ ret = RetIdle
    /\ excel_file \in Ledgers
    /\ backup_dir \in BackupDirs
    /\ clock = NOW0
    /\ txn = TxnIdle
    /\ ui = UiStart
    /\ util = UtilIdle
    /\ app = AppIdle

\* A second passes.
Tick ==
    /\ clock < NOW0 + MaxTicks
    /\ clock' = clock + 1
    /\ UNCHANGED <<alloc, rule, del, ret, excel_file, backup_dir, txn, ui, util, app>>

\* The files of a directory by timestamp of the name, oldest first.
RECURSIVE ByName(_)
ByName(dir) ==
    IF dir = {} THEN <<>>
    ELSE LET f == CHOOSE x \in dir : \A y \in dir : x.name.ts <= y.name.ts
         IN  <<f>> \o ByName(dir \ {f})

\* The glob order matters to the call only when it prunes: the listing by
\* name, forwards or backwards.
TxnGlobOrders(backup_path) ==
    IF NeedsBackup(backup_path, backup_dir)
    THEN LET o == ByName(backup_excel(excel_file, backup_dir, clock).dir)
         IN  {o, Reversed(o)}
    ELSE {<<>>}

\* The backup paths a caller passes: none, the path of a file that is gone,
\* the newest file of the directory.
BackupPaths ==
    {None, Some(StalePath)} \cup
    {Some(f.name) : f \in {x \in backup_dir : \A y \in backup_dir : x.name.ts >= y.name.ts}}

\* apply_transaction(excel_path, backup_dir, vendor_id, bill_number,
\*                   table_to_rows, backup_path=...)
\* The ledger is free, locked when the call opens it, or locked by the time
\* the call saves it.
ApplyTransaction ==
    /\ txn.n < MaxCalls
    /\ \E bill_number \in {BILL_472, BILL_473},
          backup_path \in BackupPaths,
          lock \in {"free", "open", "save"} :
        \E table_to_rows \in Batches(MOVISTAR_ID, bill_number),
           glob_order \in TxnGlobOrders(backup_path) :
            LET args == [vendor_id |-> MOVISTAR_ID,
                         bill_number |-> bill_number,
                         table_to_rows |-> table_to_rows,
                         backup_path |-> backup_path,
                         retention_keep_last_n |-> RETENTION_KEEP_LAST_N,
                         retention_keep_days |-> RETENTION_KEEP_DAYS]
                env == [locked_at_open |-> lock = "open",
                        locked_at_save |-> lock = "save",
                        glob_order |-> glob_order,
                        fails |-> {}]
            IN  \E res \in {apply_transaction(excel_file, backup_dir, clock, args, env)} :
                /\ excel_file' = res.ledger
                /\ backup_dir' = res.dir
                /\ txn' = [n |-> txn.n + 1, args |-> args, env |-> env,
                           pre |-> [ledger |-> excel_file, dir |-> backup_dir, now |-> clock],
                           res |-> res,
                           prev |-> IF txn.n = 0 THEN None
                                    ELSE Some([args |-> txn.args,
                                               status |-> txn.res.status])]
    /\ UNCHANGED <<alloc, rule, del, ret, clock, ui, util, app>>

(***************************************************************************)
(* utils/money.py                                                          *)
(***************************************************************************)
ValueError == [status |-> "ValueError", value |-> <<>>]

\* s.zfill(width) of a string of digits
zfill(s, width) == [i \in 1..(width - Len(s)) |-> "0"] \o s

\* str.isdigit() is true of the ASCII digits and of every other character
\* of Unicode that has the digit property, such as the superscript two.
IsDigitChar(c) == c = "²" \/ \E d \in 1..Len(DigitChar) : c = DigitChar[d]

isdigit(s) == s # <<>> /\ \A i \in 1..Len(s) : IsDigitChar(s[i])

normalize_bill_number(raw) ==
    LET s == StripChars(raw, Whitespace)
    IN  IF s = <<>> THEN ValueError
        ELSE IF ~isdigit(s) THEN ValueError
        ELSE IF Len(s) > 9 THEN ValueError
        ELSE [status |-> "ok", value |-> zfill(s, 9)]

\* parse_decimal_user_input on the texts of the subtotal field, in cents:
\* a decimal point, a decimal comma with a point for the thousands, and
\* half-up rounding to two places.
DecimalTable ==
    ("100.00" :> 10000) @@ ("1.234,565" :> 123457) @@ ("-50" :> -5000)

parse_decimal_user_input(value) ==
    IF value \in DOMAIN DecimalTable
    THEN [status |-> "ok", value |-> DecimalTable[value]]
    ELSE ValueError

(***************************************************************************)
(* ui/main_window.py: a session of the main window with the vendor         *)
(* OTECEL selected, its default concept, the default IVA and date.         *)
(***************************************************************************)
MaxSaves == 2

\* What the user types as bill number and as subtotal.
RawBills == {<<>>, <<"4", "7", "2">>, <<" ", "4", "7", "3">>, <<"4", "7", "A">>}
SubtotalTexts == {"", "100.00", "-50", "abc"}

\* self._selected_vendor()
SelectedVendor == CHOOSE v \in Vendors : v.vendor_id = MOVISTAR_ID

\* A Decimal with four places (the IVA rate), in 1/10000.
Dec4Cell(n) == [t |-> "dec4", n |-> n, s |-> <<>>]

\* The values of a LineItem as openpyxl stores them in cells.
CellOf(header, v) ==
    CASE header = "Date" -> DateCell(v)
      [] header \in {"Bill number", "Vendor"} -> StrCell(v)
      [] header = "Service/ concept" -> TextCell(v)
      [] header = "GL account" -> BigIntCell(v)
      [] header = "% IVA" -> Dec4Cell(v)
      [] header \in {"Subtotal assigned by CC", "IVA assigned by CC",
                     "Total assigned by CC"} -> DecCell(v)
      [] OTHER -> IntCell(v)

CellsOf(values) == [h \in DOMAIN values |-> CellOf(h, values[h])]

\* table_to_rows.setdefault(li.table_name, []).append(li.values) for every
\* line of the preview (main_window.py:1412-1414).
RECURSIVE GroupByTable(_, _)
GroupByTable(lines, table_to_rows) ==
    IF lines = <<>> THEN table_to_rows
    ELSE LET li == Head(lines)
             at == {i \in 1..Len(table_to_rows) :
                       table_to_rows[i].table_name = li.table_name}
         IN  GroupByTable(Tail(lines),
                 IF at = {}
                 THEN Append(table_to_rows,
                             [table_name |-> li.table_name,
                              rows |-> <<CellsOf(li.values)>>])
                 ELSE [table_to_rows EXCEPT
                          ![SetMin(at)].rows = Append(@, CellsOf(li.values))])

\* The user types a bill number; the entry has no handler.
TypeBill ==
    /\ \E raw \in RawBills : ui' = [ui EXCEPT !.bill_var = raw]
    /\ UNCHANGED <<alloc, rule, del, ret, excel_file, backup_dir, clock, txn, util, app>>

\* The user types a subtotal and leaves the field: _on_subtotal_focus_out.
OnSubtotalFocusOut ==
    /\ \E text \in SubtotalTexts :
        ui' = [ui EXCEPT !.subtotal_var = text, !.preview_lines = <<>>]
    /\ UNCHANGED <<alloc, rule, del, ret, excel_file, backup_dir, clock, txn, util, app>>

\* on_preview: an error of validation or of the strategy is shown and the
\* preview stays as it was.
OnPreview ==
    /\ LET bill == normalize_bill_number(ui.bill_var)
           subtotal == parse_decimal_user_input(ui.subtotal_var)
           invoice == [invoice_date |-> "2026-01-15",
                       vendor_id |-> SelectedVendor.vendor_id,
                       vendor_name |-> SelectedVendor.vendor_name,
                       bill_number |-> bill.value,
                       subtotal |-> subtotal.value,
                       iva_rate |-> 1500,
                       service_concept |-> Some(MOVISTAR_DEFAULT_CONCEPT),
                       service_type |-> None,
                       extras |-> [NoExtras EXCEPT
                                      !["phone_lines_qty"] = Some(MOVISTAR_DEFAULT_LINES)],
                       alloc_mode |-> None,
                       allocations |-> <<>>]
       IN  /\ bill.status = "ok"
           /\ subtotal.status = "ok"
           /\ build_lines(invoice).status = "ok"
           /\ ui' = [ui EXCEPT !.preview_lines = build_lines(invoice).lines]
    /\ UNCHANGED <<alloc, rule, del, ret, excel_file, backup_dir, clock, txn, util, app>>

\* on_clear
OnClear ==
    /\ ui' = [ui EXCEPT !.bill_var = <<>>, !.subtotal_var = "",
                        !.preview_lines = <<>>]
    /\ UNCHANGED <<alloc, rule, del, ret, excel_file, backup_dir, clock, txn, util, app>>

\* on_save with a preview, the user confirming: the ledger is free, locked
\* when the call opens it, or locked by the time the call saves it.  A bill
\* number that no longer validates is an error shown before the call.
OnSave ==
    /\ ui.saves < MaxSaves
    /\ ui.preview_lines # <<>>
    /\ normalize_bill_number(ui.bill_var).status = "ok"
    /\ \E lock \in {"free", "open", "save"},
          glob_order \in TxnGlobOrders(ui.session_backup_path) :
        LET args == [vendor_id |-> SelectedVendor.vendor_id,
                     bill_number |-> normalize_bill_number(ui.bill_var).value,
                     table_to_rows |-> GroupByTable(ui.preview_lines, <<>>),
                     backup_path |-> ui.session_backup_path,
                     retention_keep_last_n |-> RETENTION_KEEP_LAST_N,
                     retention_keep_days |-> RETENTION_KEEP_DAYS]
            env == [locked_at_open |-> lock = "open",
                    locked_at_save |-> lock = "save",
                    glob_order |-> glob_order,
                    fails |-> {}]
        IN  \E res \in {apply_transaction(excel_file, backup_dir, clock, args, env)} :
            LET made == IF res.ran.backup_excel
                        THEN Append(ui.made, BackupName(clock)) ELSE ui.made
            IN  /\ excel_file' = res.ledger
                /\ backup_dir' = res.dir
                /\ ui' = IF res.status = "ok"
                         THEN [bill_var |-> <<>>, subtotal_var |-> "",
                               preview_lines |-> <<>>,
                               session_backup_path |-> Some(res.returned[1].backup_path),
                               saves |-> ui.saves + 1, made |-> made]
                         ELSE [ui EXCEPT !.saves = @ + 1, !.made = made]
    /\ UNCHANGED <<alloc, rule, del, ret, clock, txn, util, app>>

(***************************************************************************)
(* Calls of the utility functions q2 (rules/common.py) and                 *)
(* normalize_bill_number (utils/money.py): each is applied once and then   *)
(* applied again to its own result.                                        *)
(***************************************************************************)
MaxThousandths == 2600
MaxBillLen == 10
MaxTextLen == 3

\* Decimal values with five fractional digits, as thousandths of a cent:
\* exact cents, halves of a cent and everything between, of both signs.
QuantizeInputs == {<<n, 1000>> : n \in -MaxThousandths..MaxThousandths}

\* Bill numbers as they reach the function: strings of digits up to
\* MaxBillLen long, and short texts with blanks, a letter and a character
\* that is a digit to str.isdigit but not one of 0-9.
BillTexts ==
    UNION {[1..k -> {"0", "7"}] : k \in 0..MaxBillLen} \cup
    UNION {[1..k -> {"4", " ", "A", "²"}] : k \in 1..MaxTextLen} \cup
    {<<"4", "7", "2">>}

UtilCall(fn, arg) ==
    [pc |-> "call", fn |-> fn, arg |-> arg, out |-> <<>>, again |-> <<>>]

UtilInit ==
    /\ alloc = AllocIdle
    /\ rule = RuleIdle
    /\ del = DelIdle
    /\ ret = RetIdle
    /\ excel_file = [wb |-> <<>>, mtime |-> 0]
    /\ backup_dir = {}
    /\ clock = NOW0
    /\ txn = TxnIdle
    /\ ui = UiStart
    /\ app = AppIdle
    /\ \/ \E x \in QuantizeInputs : util = UtilCall("q2", x)
       \/ \E raw \in BillTexts : util = UtilCall("normalize_bill_number", raw)

\* q2(value)
Quantize ==
    /\ util.pc = "call"
    /\ util.fn = "q2"
    /\ util' = [util EXCEPT !.pc = "once", !.out = q2(util.arg[1], util.arg[2])]
    /\ UNCHANGED <<alloc, rule, del, ret, excel_file, backup_dir, clock, txn, ui, app>>

\* q2 of the value q2 returned
QuantizeAgain ==
    /\ util.pc = "once"
    /\ util.fn = "q2"
    /\ util' = [util EXCEPT !.pc = "twice", !.again = q2(util.out, 1)]
    /\ UNCHANGED <<alloc, rule, del, ret, excel_file, backup_dir, clock, txn, ui, app>>

\* normalize_bill_number(raw)
NormalizeBill ==
    /\ util.pc = "call"
    /\ util.fn = "normalize_bill_number"
    /\ util' = [util EXCEPT !.pc = "once", !.out = normalize_bill_number(util.arg)]
    /\ UNCHANGED <<alloc, rule, del, ret, excel_file, backup_dir, clock, txn, ui, app>>

\* normalize_bill_number of the string normalize_bill_number returned
NormalizeBillAgain ==
    /\ util.pc = "once"
    /\ util.fn = "normalize_bill_number"
    /\ util.out.status = "ok"
    /\ util' = [util EXCEPT !.pc = "twice",
                            !.again = normalize_bill_number(util.out.value)]
    /\ UNCHANGED <<alloc, rule, del, ret, excel_file, backup_dir, clock, txn, ui, app>>

UiInit ==
    /\ alloc = AllocIdle
    /\ rule = RuleIdle
    /\ del = DelIdle
    /\ ret = RetIdle
    /\ excel_file \in Ledgers
    /\ backup_dir \in BackupDirs
    /\ clock = NOW0
    /\ txn = TxnIdle
    /\ ui = UiStart
    /\ util = UtilIdle
    /\ app = AppIdle

AllocInit ==
    /\ \E s \in Subtotals, m \in Modes :
        \E l \in AllocationLists(m) :
            alloc = [pc |-> "call", subtotal |-> s, mode |-> m,
                     allocations |-> l, out |-> Raised("none")]
    /\ rule = RuleIdle
    /\ del = DelIdle
    /\ ret = RetIdle
    /\ DiskIdle

\* validate_and_compute_allocations in percent mode on lists of up to
\* MaxPercentLines lines, among them every split of 100 percent into
\* halves, quarters and thirds, and subtotals of a few cents either way.
MaxPercentLines == 4
MaxPercentCents == 12

SplitPercents == {Some(2500), Some(3333), Some(3334), Some(5000), Some(10000)}

PercentInit ==
    /\ \E s \in -MaxPercentCents..MaxPercentCents :
        \E l \in SeqsUpTo({PercentAllocation(p) : p \in SplitPercents}, MaxPercentLines) :
            alloc = [pc |-> "call", subtotal |-> s, mode |-> "percent",
                     allocations |-> l, out |-> Raised("none")]
    /\ rule = RuleIdle
    /\ del = DelIdle
    /\ ret = RetIdle
    /\ DiskIdle

Compute ==
    /\ alloc.pc = "call"
    /\ alloc' = [alloc EXCEPT
            !.pc = "done",
            !.out = validate_and_compute_allocations(
                        alloc.subtotal, alloc.mode, alloc.allocations)]
    /\ UNCHANGED <<rule, del, ret, excel_file, backup_dir, clock, txn, ui, util, app>>

(***************************************************************************)
(* append_rows_to_table on its own.                                        *)
(***************************************************************************)
\* A row of the Movistar table whose contents were cleared.
BlankRow == [c \in 1..Len(get_table_headers(MOVISTAR_TABLE)) |-> NoneCell]

\* The table as append_rows_to_table finds it: just created (one blank
\* row), with data rows, and kept by hand with rows cleared of contents.
AppendSheets ==
    {MovistarSheet(rows) : rows \in SeqsUpTo({Row472Other, Row473, BlankRow}, MaxRows)}

\* The rows to append: none, one, two, and two of which the second has a
\* column the table does not have.
AppendBatches ==
    LET x == TxnRow(MOVISTAR_TABLE, MOVISTAR_ID, BILL_472, "2026-03-01", "Plan X", 10000)
        y == TxnRow(MOVISTAR_TABLE, MOVISTAR_ID, BILL_472, "2026-03-02", "Plan Y", 6000)
        z == TxnRow(MOVISTAR_TABLE, MOVISTAR_ID, BILL_472, "2026-03-02", "Plan Z", 4000)
    IN  {<<>>, <<x>>, <<y, z>>, <<x, y @@ ("Notes" :> TextCell("n/a"))>>}

AppendInit ==
    /\ alloc = AllocIdle
    /\ rule = RuleIdle
    /\ del = DelIdle
    /\ ret = RetIdle
    /\ excel_file = [wb |-> <<>>, mtime |-> 0]
    /\ backup_dir = {}
    /\ clock = NOW0
    /\ txn = TxnIdle
    /\ ui = UiStart
    /\ util = UtilIdle
    /\ \E ws \in AppendSheets, rows \in AppendBatches :
           app = [AppIdle EXCEPT !.pc = "call", !.ws = ws, !.rows = rows]

\* append_rows_to_table(ws, info, rows)
AppendRows ==
    /\ app.pc = "call"
    /\ app' = [app EXCEPT !.pc = "done",
                          !.out = append_rows_to_table(app.ws, TableInfo(app.ws), app.rows)]
    /\ UNCHANGED <<alloc, rule, del, ret, excel_file, backup_dir, clock, txn, ui, util>>

DeleteInit ==
    /\ alloc = AllocIdle
    /\ rule = RuleIdle
    /\ \E ws \in DeleteSheets :
        del = [pc |-> "call", ws |-> ws, vendor_id |-> MOVISTAR_ID,
               bill_number |-> BILL_472,
               out |-> [status |-> "none", ws |-> PlainSheet(<<>>), deleted |-> 0]]
    /\ ret = RetIdle
    /\ DiskIdle

RuleInit ==
    /\ alloc = AllocIdle
    /\ del = DelIdle
    /\ ret = RetIdle
    /\ DiskIdle
    /\ \E v \in Vendors, sub \in Subtotals, ex \in ExtrasChoices :
           \E c \in Concepts(v.vendor_id), st \in ServiceTypes(v.vendor_id),
              sp \in RuleSplits(sub) :
             \E iva \in IvaRatesOf(st) :
               rule = [pc |-> "call",
                       invoice |-> [invoice_date |-> "2026-01-15",
                                    vendor_id |-> v.vendor_id,
                                    vendor_name |-> v.vendor_name,
                                    bill_number |-> BILL_472,
                                    subtotal |-> sub,
                                    iva_rate |-> iva,
                                    service_concept |-> c,
                                    service_type |-> st,
                                    extras |-> ex,
                                    alloc_mode |-> sp.mode,
                                    allocations |-> sp.allocations],
                       fn |-> "none",
                       out |-> RaisedLines("none")]

\* The standard schedule of Claro siptrunk on subtotals, in cents, around
\* zero and around plus and minus the fixed total, so that the remainder
\* base takes every value modulo 100 with either sign.
MaxSipCents == 130

SiptrunkSubtotals ==
    {b + d : b \in {-50000, 0, 50000}, d \in -MaxSipCents..MaxSipCents}

SiptrunkIvaRates == {0, 1200, 1500}

SiptrunkInit ==
    /\ alloc = AllocIdle
    /\ del = DelIdle
    /\ ret = RetIdle
    /\ DiskIdle
    /\ \E sub \in SiptrunkSubtotals, iva \in SiptrunkIvaRates,
          c \in {None, Some("Claro Siptrunk")} :
           rule = [pc |-> "call",
                   invoice |-> [invoice_date |-> "2026-01-15",
                                vendor_id |-> CLARO_ID,
                                vendor_name |-> <<"C", "O", "N", "E", "C", "E", "L">>,
                                bill_number |-> BILL_472,
                                subtotal |-> sub,
                                iva_rate |-> iva,
                                service_concept |-> c,
                                service_type |-> Some("siptrunk"),
                                extras |-> NoExtras,
                                alloc_mode |-> None,
                                allocations |-> <<>>],
                   fn |-> "none",
                   out |-> RaisedLines("none")]

PruneInit ==
    /\ alloc = AllocIdle
    /\ rule = RuleIdle
    /\ del = DelIdle
    /\ \E dir \in Dirs, keep_last_n \in 0..MaxKeep, keep_days \in {1, RETENTION_KEEP_DAYS} :
        \E fails \in {{}} \cup {{f.name} : f \in dir} :
            ret = [pc |-> "call", dir |-> dir, keep_last_n |-> keep_last_n,
                   keep_days |-> keep_days, fails |-> fails, out |-> {}]
    /\ DiskIdle

(***************************************************************************)
(* One call of apply_transaction on ledgers of several ages, with the      *)
(* retention parameters and the deletions that fail chosen by the caller.  *)
(***************************************************************************)
\* The ledger was last saved a minute ago, exactly 30 days ago, or 31 days
\* ago.
LedgerAges == {60, RETENTION_KEEP_DAYS * DAY, (RETENTION_KEEP_DAYS + 1) * DAY}

AgedLedgers ==
    {[wb |-> <<VendorsSheet, MovistarSheet(<<Row472Other, Row472, Row473>>)>>,
      mtime |-> NOW0 - age] : age \in LedgerAges}

\* No backup yet; two backups of the last two days; these and one of 45
\* days.
RecentBackups ==
    {[name |-> BackupName(NOW0 - 2 * DAY), mtime |-> NOW0 - 2 * DAY,
      content |-> <<VendorsSheet>>],
     [name |-> BackupName(NOW0 - 3600), mtime |-> NOW0 - 3600,
      content |-> <<VendorsSheet>>]}

AgedBackupDirs ==
    {{}, RecentBackups,
     RecentBackups \cup {[name |-> BackupName(NOW0 - 45 * DAY),
                          mtime |-> NOW0 - 45 * DAY,
                          content |-> <<VendorsSheet>>]}}

KeepLastNs == {1, 2, RETENTION_KEEP_LAST_N}
KeepDays == {1, RETENTION_KEEP_DAYS}

BackupInit ==
    /\ alloc = AllocIdle
    /\ rule = RuleIdle
    /\ del = DelIdle
    /\ ret = RetIdle
    /\ excel_file \in AgedLedgers
    /\ backup_dir \in AgedBackupDirs
    /\ clock = NOW0
    /\ txn = TxnIdle
    /\ ui = UiStart
    /\ util = UtilIdle
    /\ app = AppIdle

\* apply_transaction(excel_path, backup_dir, vendor_id, bill_number,
\*                   table_to_rows, backup_path, retention_keep_last_n,
\*                   retention_keep_days), once; unlink fails on no file or
\* on one file of the directory as it is after the copy.
ApplyWithRetention ==
    /\ txn.n = 0
    /\ \E backup_path \in BackupPaths,
          lock \in {"free", "open", "save"},
          keep_last_n \in KeepLastNs,
          keep_days \in KeepDays :
        \E table_to_rows \in {b \in Batches(MOVISTAR_ID, BILL_472) :
                                 Len(b) = 1 /\ b[1].table_name = MOVISTAR_TABLE},
           glob_order \in TxnGlobOrders(backup_path) :
          \E fails \in {{}} \cup {{glob_order[i].name} : i \in 1..Len(glob_order)} :
            LET args == [vendor_id |-> MOVISTAR_ID,
                         bill_number |-> BILL_472,
                         table_to_rows |-> table_to_rows,
                         backup_path |-> backup_path,
                         retention_keep_last_n |-> keep_last_n,
                         retention_keep_days |-> keep_days]
                env == [locked_at_open |-> lock = "open",
                        locked_at_save |-> lock = "save",
                        glob_order |-> glob_order,
                        fails |-> fails]
            IN  \E res \in {apply_transaction(excel_file, backup_dir, clock, args, env)} :
                /\ excel_file' = res.ledger
                /\ backup_dir' = res.dir
                /\ txn' = [n |-> 1, args |-> args, env |-> env,
                           pre |-> [ledger |-> excel_file, dir |-> backup_dir, now |-> clock],
                           res |-> res, prev |-> None]
    /\ UNCHANGED <<alloc, rule, del, ret, clock, ui, util, app>>

vars == <<alloc, rule, del, ret, excel_file, backup_dir, clock, txn, ui,
          util, app>>

SpecAlloc == AllocInit /\ [][Compute]_vars

RuleNext ==
    \/ CallCirion \/ CallAkros \/ CallMovistar \/ CallEikon \/ CallPuntonet
    \/ CallSipbox \/ CallClaro \/ CallGeneric \/ CallDummy \/ CallBuildLines

SpecRules == RuleInit /\ [][RuleNext]_vars

SpecDelete == DeleteInit /\ [][DeleteDuplicates]_vars

SpecPrune == PruneInit /\ [][PruneBackups]_vars

SpecAppend == AppendInit /\ [][AppendRows]_vars

UtilNext == Quantize \/ QuantizeAgain \/ NormalizeBill \/ NormalizeBillAgain

SpecUtil == UtilInit /\ [][UtilNext]_vars

UiNext == TypeBill \/ OnSubtotalFocusOut \/ OnPreview \/ OnClear \/ OnSave \/ Tick

SpecUI == UiInit /\ [][UiNext]_vars

BackupNext == ApplyWithRetention \/ Tick

SpecBackup == BackupInit /\ [][BackupNext]_vars

SpecSiptrunk == SiptrunkInit /\ [][CallClaro]_vars

SpecPercent == PercentInit /\ [][Compute]_vars

Next == ApplyTransaction \/ Tick

Spec == Init /\ [][Next]_vars

(***************************************************************************)
(* Claims about the allocation validator, checked under SpecAlloc.         *)
(***************************************************************************)
AllocDone == alloc.pc = "done"

ValidInput == alloc.mode \in {"percent", "amount"} /\ alloc.allocations # <<>>

\* The quantized per-line amounts before any adjustment, and their distance
\* to the subtotal.
Quantized == LineAmounts(alloc.subtotal, alloc.mode, alloc.allocations)
RawDiff == alloc.subtotal - SumSeq(Quantized)

OutAmounts == [i \in 1..Len(alloc.out.pairs) |-> alloc.out.pairs[i][2]]

\* C3: when the quantized amounts total within 0.01 of the subtotal (0.01
\* included), the validator returns, and the returned amounts sum exactly to
\* the subtotal.
C3_SumExact ==
    (AllocDone /\ ValidInput /\ Abs(RawDiff) <= TOLERANCE)
        => (alloc.out.status = "ok" /\ SumSeq(OutAmounts) = alloc.subtotal)

C3_Witness ==
    /\ AllocDone /\ ValidInput
    /\ Abs(RawDiff) = TOLERANCE
    /\ alloc.out.status = "ok"
    /\ Len(alloc.allocations) > 1

\* C4: when the quantized amounts total differs from the subtotal by more
\* than 0.01, the validator raises the reconciliation error and returns no
\* pair at all.
C4_RaisesBeyondTolerance ==
    (AllocDone /\ ValidInput /\ Abs(RawDiff) > TOLERANCE)
        => (alloc.out.status = "ReconciliationError" /\ alloc.out.pairs = <<>>)

C4_Witness ==
    /\ AllocDone /\ ValidInput
    /\ RawDiff < -TOLERANCE
    /\ alloc.out.status = "ReconciliationError"

\* C5: on success there is one pair per allocation, in input order; every
\* amount but the last is its quantized value and the last is its quantized
\* value plus diff; 50/50/0.01 percent of 100.00 gives 50.00, 50.00, 0.00.
C5_OnlyLastAdjusted ==
    (AllocDone /\ alloc.out.status = "ok") =>
        LET n == Len(alloc.allocations)
            diff == q2(alloc.subtotal - q2(SumSeq(Quantized), 1), 1)
        IN  /\ Len(alloc.out.pairs) = n
            /\ \A i \in 1..n : alloc.out.pairs[i][1] = alloc.allocations[i]
            /\ \A i \in 1..(n - 1) : OutAmounts[i] = Quantized[i]
            /\ OutAmounts[n] = Quantized[n] + diff
            /\ (/\ alloc.subtotal = 10000
                /\ alloc.mode = "percent"
                /\ [i \in 1..n |-> alloc.allocations[i].percent]
                      = <<Some(5000), Some(5000), Some(1)>>)
                  => OutAmounts = <<5000, 5000, 0>>

C5_Witness ==
    /\ AllocDone /\ alloc.out.status = "ok"
    /\ alloc.subtotal = 10000
    /\ alloc.mode = "percent"
    /\ Len(alloc.allocations) = 3
    /\ [i \in 1..3 |-> alloc.allocations[i].percent]
          = <<Some(5000), Some(5000), Some(1)>>
    /\ OutAmounts[3] # Quantized[3]

\* C13: validate_and_compute_allocations rejects its input before computing
\* any amount: with the invalid-mode error whenever mode is not 'percent' or
\* 'amount', whatever the allocation list, and with the empty-allocations
\* error whenever mode is valid and the list is empty.
C13_RejectsModeThenEmptyList ==
    AllocDone =>
        /\ alloc.mode \notin {"percent", "amount"}
               => alloc.out = [status |-> "InvalidMode", pairs |-> <<>>]
        /\ (alloc.mode \in {"percent", "amount"} /\ alloc.allocations = <<>>)
               => alloc.out = [status |-> "EmptyAllocations", pairs |-> <<>>]

\* An unknown mode with an empty list: the mode is what is reported.
C13_Witness ==
    /\ AllocDone
    /\ alloc.mode = "none"
    /\ alloc.allocations = <<>>
    /\ alloc.out.status = "InvalidMode"

(***************************************************************************)

(* Claims about the vendor strategies, checked under SpecRules.            *)
(***************************************************************************)
RuleDone == rule.pc = "done"

RuleOk == RuleDone /\ rule.out.status = "ok"

\* C6: for every vendor strategy and every path through it (standard
\* schedule, custom split, single-line passthrough), and every subtotal with
\* two fractional digits, positive, zero or negative, when line building
\* succeeds the "Subtotal assigned by CC" values of the produced lines sum
\* to invoice.subtotal exactly.
C6_LinesSumToSubtotal ==
    RuleOk => SumSeq(LineSubtotals(rule.out.lines)) = rule.invoice.subtotal

\* The Claro mobile schedule on a subtotal whose four rounded parts do not
\* add up: the last line has absorbed the difference.
C6_Witness ==
    /\ RuleOk
    /\ rule.fn = "build_lines_for_claro"
    /\ Len(rule.out.lines) = Len(MOBILE_SPLIT)
    /\ rule.out.lines[1].table_name = MOBILE_TABLE
    /\ rule.invoice.subtotal < 0
    /\ SubtotalOf(rule.out.lines[Len(MOBILE_SPLIT)]) #
           q2(rule.invoice.subtotal * MOBILE_SPLIT[Len(MOBILE_SPLIT)].pct, 10000)
    /\ SumSeq(LineSubtotals(rule.out.lines)) = rule.invoice.subtotal

(***************************************************************************)
(* Claims about apply_transaction, checked under Spec.                     *)
(***************************************************************************)
TxnDone == txn.n > 0

TxnOk == TxnDone /\ txn.res.status = "ok"

\* The sheet that holds table table_name in a workbook.
SheetOfTable(wb, table_name) == wb[SetMin(TableSheets(wb, table_name))]

\* Whether the (ID, Bill number) of a data row is the key as the program
\* writes it: the vendor id as an int, the bill number as that very str.
HasKey(ws, row, vendor_id, bill_number) ==
    LET col_map == _header_to_col_index(TableInfo(ws))
    IN  /\ row[col_map["ID"]] = IntCell(vendor_id)
        /\ row[col_map["Bill number"]] = StrCell(bill_number)

\* The data rows of a sheet that carry the key, top to bottom, each as
\* header -> value.
RECURSIVE KeyRows(_, _, _, _)
KeyRows(ws, k, vendor_id, bill_number) ==
    IF k > Len(ws.rows) THEN <<>>
    ELSE (IF HasKey(ws, ws.rows[k], vendor_id, bill_number)
          THEN <<RowValues(ws.headers, ws.rows[k])>> ELSE <<>>)
         \o KeyRows(ws, k + 1, vendor_id, bill_number)

\* C1: after every successful call of a sequence of calls on one ledger, in
\* each table T of the call the rows of T whose (ID, Bill number) is the key
\* of the call are exactly the rows R handed for T, in order; so a second
\* call with the same key and other rows leaves only the rows of the second
\* call.
C1_KeyRowsAreThoseOfTheCall ==
    TxnOk =>
        \A k \in 1..Len(txn.args.table_to_rows) :
            LET e == txn.args.table_to_rows[k]
            IN  /\ TableSheets(excel_file.wb, e.table_name) # {}
                /\ KeyRows(SheetOfTable(excel_file.wb, e.table_name), 1,
                           txn.args.vendor_id, txn.args.bill_number) = e.rows

\* Two successful calls with one key on one table, the second with other
\* rows than the first.
C1_Witness ==
    /\ TxnOk
    /\ txn.n = 2
    /\ txn.prev # None
    /\ txn.prev[1].status = "ok"
    /\ txn.prev[1].args.bill_number = txn.args.bill_number
    /\ txn.prev[1].args.table_to_rows[1].table_name = MOVISTAR_TABLE
    /\ txn.args.table_to_rows[1].table_name = MOVISTAR_TABLE
    /\ txn.prev[1].args.table_to_rows[1].rows # txn.args.table_to_rows[1].rows
    /\ KeyRows(SheetOfTable(excel_file.wb, MOVISTAR_TABLE), 1,
               txn.args.vendor_id, txn.args.bill_number)
          = txn.args.table_to_rows[1].rows

\* C2: when the call raises (ledger locked at open, table without the ID or
\* Bill number column, a row naming a column the table has not, save
\* rejected by a lock) the ledger file is what it was before the call; when
\* it returns, the rows of every table of the batch are in the file that the
\* one save wrote.
C2_RaiseLeavesLedgerAlone ==
    TxnDone =>
        /\ txn.res.status # "ok" => excel_file = txn.pre.ledger
        /\ txn.res.status = "ok" =>
              /\ excel_file.mtime = txn.pre.now
              /\ \A k \in 1..Len(txn.args.table_to_rows) :
                    LET e == txn.args.table_to_rows[k]
                        ws == SheetOfTable(excel_file.wb, e.table_name)
                    IN  \A i \in 1..Len(e.rows) :
                            \E r \in 1..Len(ws.rows) :
                                RowValues(ws.headers, ws.rows[r]) = e.rows[i]

\* A batch of two tables whose second table raises after the first was
\* rewritten in memory, on a ledger that held rows of the key.
C2_Witness ==
    /\ TxnDone
    /\ txn.res.status = "ExcelWriteError"
    /\ txn.res.at = "append"
    /\ Len(txn.args.table_to_rows) = 2
    /\ TableSheets(txn.pre.ledger.wb, MOVISTAR_TABLE) # {}
    /\ KeyRows(SheetOfTable(txn.pre.ledger.wb, MOVISTAR_TABLE), 1,
               txn.args.vendor_id, txn.args.bill_number) # <<>>
    /\ excel_file = txn.pre.ledger

\* backup_path is None or names a file that no longer exists
BackupPathUnusable ==
    \/ txn.args.backup_path = None
    \/ \A f \in txn.pre.dir : f.name # txn.args.backup_path[1]

\* C8: the call copies the ledger to a new backup and runs the retention
\* policy exactly when the given backup path is None or names a file that is
\* gone, and when it returns it reports that in its third value; otherwise
\* the backup directory is left as it was and the given path is returned.
C8_BackupExactlyWhenPathUnusable ==
    TxnDone =>
        /\ txn.res.ran.backup_excel = BackupPathUnusable
        /\ txn.res.ran.prune_backups = BackupPathUnusable
        /\ txn.res.returned # None =>
              txn.res.returned[1].backup_created = BackupPathUnusable
        /\ BackupPathUnusable =>
              /\ \E f \in backup_dir :
                    /\ f.name = BackupName(txn.pre.now)
                    /\ f.content = txn.pre.ledger.wb
                    /\ f.mtime = txn.pre.ledger.mtime
              /\ \A f \in backup_dir :
                    f.mtime >= txn.pre.now - txn.args.retention_keep_days * DAY
              /\ Cardinality(backup_dir) <= txn.args.retention_keep_last_n
              /\ txn.res.returned # None =>
                    txn.res.returned[1].backup_path = BackupName(txn.pre.now)
        /\ ~BackupPathUnusable =>
              /\ backup_dir = txn.pre.dir
              /\ txn.res.returned # None =>
                    txn.res.returned[1].backup_path = txn.args.backup_path[1]

\* A path is given but its file is gone: the call makes a backup, retention
\* removes a backup of more than 30 days, and the call reports the backup.
C8_Witness ==
    /\ TxnOk
    /\ txn.args.backup_path = Some(StalePath)
    /\ txn.res.returned[1].backup_created
    /\ txn.res.returned[1].backup_path # StalePath
    /\ \E f \in txn.pre.dir : f \notin backup_dir
    /\ \E f \in backup_dir : f \notin txn.pre.dir

(***************************************************************************)
(* Claims about delete_duplicates_in_table, checked under SpecDelete.      *)
(***************************************************************************)
DelOk == del.pc = "done" /\ del.out.status = "ok"

IdOf(row) == row[_header_to_col_index(TableInfo(del.ws))["ID"]]

BillOf(row) == row[_header_to_col_index(TableInfo(del.ws))["Bill number"]]

\* The ID is the vendor id and the Bill number, as text without the blanks
\* around it, is the bill number.
KeyEqualsTrimmed(row) ==
    /\ PyEq(IdOf(row), del.vendor_id)
    /\ StripChars(PyStr(BillOf(row)), Whitespace) = del.bill_number

OtherKeyTrimmed(row) == ~KeyEqualsTrimmed(row)

\* The (ID, Bill number) of the row equals (vendor_id, bill_number).
KeyEquals(row) ==
    /\ PyEq(IdOf(row), del.vendor_id)
    /\ BillOf(row).t = "str"
    /\ BillOf(row).s = del.bill_number

OtherKey(row) == ~KeyEquals(row)

PruneDone == ret.pc = "done" /\ ret.fails = {}

Cutoff == clock - ret.keep_days * DAY

BackupsOf(dir) == {f \in dir : IsBackupFile(f)}

Min2(a, b) == IF a < b THEN a ELSE b

\* C10: when no deletion fails, prune_backups leaves exactly
\* min(keep_last_n, number of backups not older than the cutoff) backup
\* files, none of them older than the cutoff (a backup modified exactly at
\* the cutoff counts and can stay), no deleted backup newer than a kept one,
\* and every file that is no backup where it was.
C10_KeepsNewestNotOlderThanCutoff ==
    PruneDone =>
        LET before == BackupsOf(ret.dir)
            kept == BackupsOf(ret.out)
        IN  /\ ret.out \subseteq ret.dir
            /\ ret.dir \ ret.out \subseteq before
            /\ Cardinality(kept) =
                  Min2(ret.keep_last_n,
                       Cardinality({f \in before : f.mtime >= Cutoff}))
            /\ \A f \in kept : f.mtime >= Cutoff
            /\ \A f \in kept, g \in before \ kept : g.mtime <= f.mtime

\* More backups not older than the cutoff than keep_last_n: one older than
\* the cutoff is deleted, and of two modified exactly at the cutoff one is
\* kept and one deleted.
C10_Witness ==
    /\ PruneDone
    /\ ret.keep_last_n = MaxKeep
    /\ \E f \in BackupsOf(ret.dir) : f.mtime < Cutoff /\ f \notin ret.out
    /\ \E f \in BackupsOf(ret.dir) : f.mtime = Cutoff /\ f \in ret.out
    /\ \E f \in BackupsOf(ret.dir) : f.mtime = Cutoff /\ f \notin ret.out
    /\ Cardinality(BackupsOf(ret.out)) = MaxKeep

\* C10 as stated: every backup left is newer than the cutoff.
C10_AsStated ==
    PruneDone =>
        LET before == BackupsOf(ret.dir)
            kept == BackupsOf(ret.out)
        IN  /\ Cardinality(kept) =
                  Min2(ret.keep_last_n,
                       Cardinality({f \in before : f.mtime >= Cutoff}))
            /\ \A f \in kept : f.mtime > Cutoff
            /\ \A f \in kept, g \in before \ kept : g.mtime <= f.mtime

\* A call of prune_backups in which one unlink raised.
PruneDoneWithFailure == ret.pc = "done" /\ ret.fails # {}

Undeletable(f) == f.name \in ret.fails

\* The backups left by the age pass: those not older than the cutoff and
\* the older one that could not be deleted.
Survivors == {f \in BackupsOf(ret.dir) : f.mtime >= Cutoff \/ Undeletable(f)}

\* Older than keep_days, or with keep_last_n or more survivors that are
\* newer.
Eligible(f) ==
    \/ f.mtime < Cutoff
    \/ Cardinality({g \in Survivors : g.mtime > f.mtime}) >= ret.keep_last_n

\* C22: when the deletion of one backup fails, in the age pass or in the
\* count pass, prune_backups returns, every other backup that is older than
\* keep_days or beyond the newest keep_last_n survivors is deleted, at most
\* keep_last_n other backups are left, and nothing else is removed.
C22_FailedDeletionIsSkipped ==
    PruneDoneWithFailure =>
        /\ \A f \in BackupsOf(ret.dir) :
              (Eligible(f) /\ ~Undeletable(f)) => f \notin ret.out
        /\ Cardinality({f \in BackupsOf(ret.out) : ~Undeletable(f)}) <= ret.keep_last_n
        /\ \A f \in ret.dir : Undeletable(f) => f \in ret.out
        /\ ret.out \subseteq ret.dir
        /\ ret.dir \ ret.out \subseteq BackupsOf(ret.dir)

\* The backup that cannot be deleted is older than keep_days and stays;
\* another backup older than keep_days is deleted in the age pass and one
\* not older in the count pass.
C22_Witness ==
    /\ PruneDoneWithFailure
    /\ \E f \in BackupsOf(ret.out) : Undeletable(f) /\ f.mtime < Cutoff
    /\ \E f \in BackupsOf(ret.dir) : f.mtime < Cutoff /\ f \notin ret.out
    /\ \E f \in BackupsOf(ret.dir) : f.mtime >= Cutoff /\ f \notin ret.out
    /\ BackupsOf(ret.out) # {f \in ret.out : Undeletable(f)}

(***************************************************************************)
(* Claims about a session of the main window, checked under SpecUI.        *)
(***************************************************************************)
\* C9: within one session, whatever the outcome of each save, the saves
\* create at most one backup file for as long as the backup created first
\* still exists.
C9_OneBackupPerSession ==
    (ui.made # <<>> /\ Exists(backup_dir, ui.made[1]))
        => \A i \in 1..Len(ui.made) : ui.made[i] = ui.made[1]

(***************************************************************************)
(* Claims about registry.build_lines, checked under SpecRules.             *)
(***************************************************************************)
BuildLinesDone == RuleDone /\ rule.fn = "build_lines"

\* C11: for an invoice whose vendor_id has no dedicated vendor strategy,
\* build_lines applies the generic fallback strategy and returns its lines
\* (destination table derived from the vendor name and id) instead of
\* failing with the unknown-vendor-rule error.
C11_FallbackForUnknownVendor ==
    (BuildLinesDone /\ rule.invoice.vendor_id \notin RuleVendorIds)
        => /\ rule.out.status # "UnknownVendorRule"
           /\ rule.out = build_lines_generic(rule.invoice)

(***************************************************************************)
(* Claims about the single-line passthrough of the strategies, checked     *)
(* under SpecRules.                                                        *)
(***************************************************************************)
\* The strategies that have a passthrough case: the seven vendor modules
\* and the generic builder.
\* The strategy function of each vendor that has a rule module.
StrategyOf(invoice) ==
    CASE invoice.vendor_id = CLARO_ID -> build_lines_for_claro(invoice)
      [] invoice.vendor_id = CIRION_ID -> build_lines_for_cirion(invoice)
      [] invoice.vendor_id = AKROS_ID -> build_lines_for_akros(invoice)
      [] invoice.vendor_id = EIKON_ID -> build_lines_for_eikon(invoice)
      [] invoice.vendor_id = MOVISTAR_ID -> build_lines_for_movistar(invoice)
      [] invoice.vendor_id = PUNTONET_ID -> build_lines_for_puntonet(invoice)
      [] invoice.vendor_id = SIPBOX_ID -> build_lines_for_sipbox(invoice)

\* C17: build_lines dispatches by invoice.vendor_id to that vendor's
\* dedicated strategy: for each vendor that has a rule module (Claro,
\* Cirion, Akros, Eikon, Movistar, Puntonet, Sipbox) build_lines returns the
\* lines of that vendor's strategy function, e.g. an Eikon invoice with
\* concept 'Domains (annual)' yields its single Eikon_table line.
C17_DispatchesToVendorStrategy ==
    (BuildLinesDone /\ rule.invoice.vendor_id \in
        {CLARO_ID, CIRION_ID, AKROS_ID, EIKON_ID, MOVISTAR_ID, PUNTONET_ID, SIPBOX_ID})
        => rule.out = StrategyOf(rule.invoice)

StrategyFns == {"build_lines_for_cirion", "build_lines_for_akros",
                "build_lines_for_movistar", "build_lines_for_eikon",
                "build_lines_for_puntonet", "build_lines_for_sipbox",
                "build_lines_for_claro", "build_lines_generic"}

\* The trimmed concept of the invoice, "" when there is none.
ConceptText(invoice) ==
    IF invoice.service_concept = None THEN "" ELSE strip(invoice.service_concept[1])

ClaroServiceType(invoice) ==
    IF invoice.service_type = None THEN ""
    ELSE lower(strip(invoice.service_type[1]))

\* The concept is not one the vendor has a standard schedule for.
IsCustomConcept(invoice) ==
    LET c == ConceptText(invoice)
        id == invoice.vendor_id
    IN  CASE id = EIKON_ID -> c # "" /\ c \notin EIKON_CONCEPTS
          [] id = CLARO_ID ->
                /\ ClaroServiceType(invoice) \in {"siptrunk", "sbc", "mobile"}
                /\ c = OTRO
          [] id \in {CIRION_ID, AKROS_ID, MOVISTAR_ID, PUNTONET_ID, SIPBOX_ID} ->
                c # "" /\ c # DefaultConcept(id)
          [] OTHER -> TRUE

NoSplitConfigured(invoice) ==
    invoice.alloc_mode = None \/ invoice.allocations = <<>>

PassthroughCase ==
    /\ RuleDone
    /\ rule.fn \in StrategyFns
    /\ IsCustomConcept(rule.invoice)
    /\ NoSplitConfigured(rule.invoice)

TaxOf(subtotal, rate) ==
    LET mag == (2 * Abs(subtotal * rate) + 10000) \div 20000
    IN  IF subtotal * rate < 0 THEN -mag ELSE mag

\* The standard schedule of Claro mobile.
MobileSchedule ==
    /\ RuleOk
    /\ rule.fn = "build_lines_for_claro"
    /\ ClaroServiceType(rule.invoice) = "mobile"
    /\ ConceptText(rule.invoice) # OTRO

\* C25: in every line a strategy produces, IVA assigned is
\* q2(Subtotal assigned * iva_rate) and Total assigned is
\* q2(Subtotal assigned + IVA assigned); this holds for the last line after
\* the closing adjustment has changed its Subtotal assigned, and the lines
\* before it keep their share of the subtotal.
C25_TaxAndTotalFollowAssignedSubtotal ==
    RuleOk =>
        /\ \A i \in 1..Len(rule.out.lines) :
              LET v == rule.out.lines[i].values
                  sub == v["Subtotal assigned by CC"]
              IN  /\ v["% IVA"] = rule.invoice.iva_rate
                  /\ v["IVA assigned by CC"] = TaxOf(sub, rule.invoice.iva_rate)
                  /\ v["Total assigned by CC"] = sub + TaxOf(sub, rule.invoice.iva_rate)
        /\ MobileSchedule =>
              /\ Len(rule.out.lines) = Len(MOBILE_SPLIT)
              /\ \A i \in 1..Len(MOBILE_SPLIT) - 1 :
                    SubtotalOf(rule.out.lines[i]) =
                        TaxOf(rule.invoice.subtotal, MOBILE_SPLIT[i].pct)

\* The Claro mobile schedule on a positive subtotal whose parts do not add
\* up: the last line is adjusted and its tax is no longer the tax of its
\* share.
C25_Witness ==
    /\ MobileSchedule
    /\ rule.invoice.subtotal > 0
    /\ LET last == rule.out.lines[Len(MOBILE_SPLIT)]
           share == TaxOf(rule.invoice.subtotal, MOBILE_SPLIT[Len(MOBILE_SPLIT)].pct)
       IN  /\ SubtotalOf(last) # share
           /\ last.values["IVA assigned by CC"] # TaxOf(share, rule.invoice.iva_rate)
           /\ last.values["IVA assigned by CC"] =
                  TaxOf(SubtotalOf(last), rule.invoice.iva_rate)

(***************************************************************************)
(* Claims about the Claro strategy, checked under SpecRules.               *)
(***************************************************************************)
ClaroDone == RuleDone /\ rule.fn = "build_lines_for_claro"

\* The table of each Claro sub-schedule.
ClaroTables ==
    ("siptrunk" :> SIPTRUNK_TABLE) @@ ("sbc" :> SBC_TABLE) @@ ("mobile" :> MOBILE_TABLE)

\* C14: for the Claro vendor, an invoice whose service_type is missing or,
\* after trimming and lower-casing, is not one of siptrunk / sbc / mobile
\* fails with the invalid-service-type error and produces no lines; a valid
\* service_type selects exactly one of the three sub-schedules and all
\* produced lines target that sub-schedule's table.
C14_ClaroServiceTypeSelectsOneTable ==
    ClaroDone =>
        LET st == ClaroServiceType(rule.invoice)
        IN  IF st \notin DOMAIN ClaroTables
            THEN rule.out = [status |-> "InvalidServiceType", lines |-> <<>>]
            ELSE /\ rule.out.status # "InvalidServiceType"
                 /\ \A i \in 1..Len(rule.out.lines) :
                        rule.out.lines[i].table_name = ClaroTables[st]

\* The service type " SBC " with the standard concept: the SBC schedule,
\* every line in Claro_SBC_table.
C14_Witness ==
    /\ ClaroDone
    /\ rule.invoice.service_type = Some(" SBC ")
    /\ rule.out.status = "ok"
    /\ Len(rule.out.lines) = Len(SBC_SPLIT)
    /\ \A i \in 1..Len(rule.out.lines) : rule.out.lines[i].table_name = SBC_TABLE

(***************************************************************************)
(* Claims about the utility functions, checked under SpecUtil.             *)
(***************************************************************************)
\* C15: quantize2 (round to 2 fractional digits, half-up) is idempotent:
\* quantize2(quantize2(x)) = quantize2(x) for all x, including negative
\* values and values exactly halfway between two cents.
C15_Quantize2Idempotent ==
    (util.fn = "q2" /\ util.pc = "twice") => util.again = util.out

\* A negative value exactly halfway between two cents (-1.5 cents) went to
\* -2 cents, away from zero, and stayed there.
C15_Witness ==
    /\ util.fn = "q2"
    /\ util.pc = "twice"
    /\ util.arg = <<-1500, 1000>>
    /\ util.out = -2
    /\ util.again = -2

BillDone == util.fn = "normalize_bill_number" /\ util.pc \in {"once", "twice"}

\* Every character of s is one of 0-9.
AllDecimalDigits(s) ==
    \A i \in 1..Len(s) : \E d \in 1..Len(DigitChar) : s[i] = DigitChar[d]

\* out is s left-padded with zeros to nine characters.
IsZeroPadded(out, s) ==
    /\ Len(out) = 9
    /\ Len(s) <= 9
    /\ \A i \in 1..(9 - Len(s)) : out[i] = "0"
    /\ \A i \in 1..Len(s) : out[9 - Len(s) + i] = s[i]

\* A digit string of 1 to 9 digits is left-padded with zeros to nine
\* characters, and the function is idempotent on its own output.
BillPaddedAndStable ==
    /\ (util.arg # <<>> /\ Len(util.arg) <= 9 /\ AllDecimalDigits(util.arg))
           => /\ util.out.status = "ok"
              /\ IsZeroPadded(util.out.value, util.arg)
    /\ util.pc = "twice" => util.again = util.out

\* C16: normalize_bill_number maps every digit string of 1 to 9 digits to
\* the 9-character string obtained by left-padding it with zeros ("472"
\* gives "000000472"), is idempotent on its own output, and raises a
\* validation error for empty input, input containing a non-digit, and
\* input longer than 9 digits.  The input is read as the code reads it,
\* with surrounding whitespace trimmed, and a digit is one of 0-9.
C16_PadsDigitsRaisesOnNonDigit ==
    BillDone =>
        LET s == StripChars(util.arg, Whitespace)
        IN  /\ BillPaddedAndStable
            /\ (s = <<>> \/ ~AllDecimalDigits(s) \/ Len(s) > 9)
                   => util.out = [status |-> "ValueError", value |-> <<>>]

(***************************************************************************)
(* Claims about append_rows_to_table, checked under SpecAppend.            *)
(***************************************************************************)
AppOk == app.pc = "done" /\ app.out.status = "ok"

\* The table consists of a single blank placeholder row.
IsPlaceholderTable(ws) ==
    ws.max_row = 2 /\ \A c \in 1..Len(ws.headers) : IsEmptyValue(CellAt(ws, 2, c))

\* Sheet row r of ws holds the values of row_values under their headers.
HoldsRow(ws, r, row_values) ==
    \A h \in DOMAIN row_values :
        CellAt(ws, r, CHOOSE c \in 1..Len(ws.headers) : ws.headers[c] = h) = row_values[h]

\* C18: append writes the new rows directly after the last existing data
\* row of the table, in caller-supplied order, and never overwrites,
\* reorders or drops a pre-existing surviving row; the first data row is
\* reused only when the table consists of a single blank placeholder row
\* (a just-created table).
C18_AppendsAfterLastRowKeepingRows ==
    AppOk =>
        LET old == app.ws
            new == app.out.ws
            k == Len(app.rows)
            first == IF IsPlaceholderTable(old) THEN 2 ELSE old.max_row + 1
        IN  /\ \A i \in 1..k : HoldsRow(new, first + i - 1, app.rows[i])
            /\ new.max_row = IF k = 0 THEN old.max_row ELSE first + k - 1
            /\ ~IsPlaceholderTable(old) =>
                   \A r \in 2..old.max_row :
                       RowAt(new, r, 1, Len(old.headers)) = RowAt(old, r, 1, Len(old.headers))

(***************************************************************************)
(* Claims about the bounds of the target tables and about tables created   *)
(* by the call, checked under Spec.                                        *)
(***************************************************************************)
\* The sheet rows below the header, up to row last, that hold a value.
DataRowsOf(ws, last) ==
    {r \in 2..last : ~_is_row_empty(ws, r, 1, Len(ws.headers))}

\* The number of data rows of table table_name in a workbook, 0 when the
\* workbook has no such table.
RowsBefore(wb, table_name) ==
    IF TableSheets(wb, table_name) = {} THEN 0
    ELSE LET ws == SheetOfTable(wb, table_name)
         IN  Cardinality(DataRowsOf(ws, ws.max_row))

\* The deleted count the call reports for a table.
DeletedOf(table_name) ==
    LET d == txn.res.returned[1].deleted_by_table
    IN  d[CHOOSE i \in 1..Len(d) : d[i].table_name = table_name].deleted

TargetsNewTable(k) ==
    /\ TableSheets(txn.pre.ledger.wb, txn.args.table_to_rows[k].table_name) = {}
    /\ Len(txn.args.table_to_rows[k].rows) >= 1

\* C20: when apply_transaction targets a table name that does not exist in
\* the ledger, with k >= 1 rows, then after the (successful) call the ledger
\* contains a table of that name on a newly created sheet (no existing sheet
\* is reused or modified), its headers are the base headers followed by the
\* extra headers registered for that table name, its data rows are exactly
\* the k supplied rows (no blank placeholder left), and the reported deleted
\* count for it is 0.
C20_NewTableOnNewSheetHoldsTheRows ==
    TxnOk =>
        \A k \in 1..Len(txn.args.table_to_rows) :
            TargetsNewTable(k) =>
                LET e == txn.args.table_to_rows[k]
                    pre == txn.pre.ledger.wb
                    post == excel_file.wb
                    at == TableSheets(post, e.table_name)
                    ws == SheetOfTable(post, e.table_name)
                IN  /\ Cardinality(at) = 1
                    /\ \A i \in at : i > Len(pre)
                    /\ \A j \in 1..Len(pre) :
                           /\ post[j].title = pre[j].title
                           /\ post[j].table = pre[j].table
                           /\ pre[j].table = None => post[j] = pre[j]
                    /\ ws.headers =
                           BASE_HEADERS \o
                           (IF e.table_name \in DOMAIN EXTRA_HEADERS_BY_TABLE
                            THEN EXTRA_HEADERS_BY_TABLE[e.table_name] ELSE <<>>)
                    /\ ws.max_row = Len(e.rows) + 1
                    /\ Len(ws.rows) = Len(e.rows)
                    /\ \A i \in 1..Len(e.rows) :
                           RowValues(ws.headers, ws.rows[i]) = e.rows[i]
                    /\ DeletedOf(e.table_name) = 0

\* Dummy_table is created in a ledger that has a sheet of that name without
\* a table: the table goes to a new sheet, Dummy_table_2, and the old sheet
\* stays as it was.
C20_Witness ==
    /\ TxnOk
    /\ \E k \in 1..Len(txn.args.table_to_rows) :
           /\ txn.args.table_to_rows[k].table_name = DUMMY_TABLE
           /\ TargetsNewTable(k)
    /\ \E j \in 1..Len(txn.pre.ledger.wb) :
           /\ txn.pre.ledger.wb[j] = PlainSheet(DUMMY_TABLE)
           /\ excel_file.wb[j] = PlainSheet(DUMMY_TABLE)
    /\ SheetOfTable(excel_file.wb, DUMMY_TABLE).title = DUMMY_TABLE \o <<"_", "2">>
    /\ SheetOfTable(excel_file.wb, DUMMY_TABLE).max_row = 2
    /\ ~_is_row_empty(SheetOfTable(excel_file.wb, DUMMY_TABLE), 2, 1, Len(BASE_HEADERS))

\* The tables a call was handed rows for.
TablesOfCall ==
    {txn.args.table_to_rows[k].table_name : k \in 1..Len(txn.args.table_to_rows)}

\* The sheets of the ledger that hold a table with an ID and a Bill number
\* column for which the call was handed no rows.
OtherTableSheets ==
    {s \in 1..Len(excel_file.wb) :
        /\ excel_file.wb[s].table # None
        /\ excel_file.wb[s].table[1] \notin TablesOfCall
        /\ \E i \in 1..Len(excel_file.wb[s].headers) : excel_file.wb[s].headers[i] = "ID"
        /\ \E i \in 1..Len(excel_file.wb[s].headers) :
              excel_file.wb[s].headers[i] = "Bill number"}

\* C28: after a call returns, no table of the ledger outside table_to_rows
\* holds a row with the (vendor_id, bill_number) of the call.
C28_NoKeyRowsOutsideTheTablesOfTheCall ==
    TxnOk =>
        \A s \in OtherTableSheets :
            \A r \in 1..Len(excel_file.wb[s].rows) :
                ~HasKey(excel_file.wb[s], excel_file.wb[s].rows[r],
                        txn.args.vendor_id, txn.args.bill_number)

\* A step of on_save that reaches apply_transaction.
SaveStep == ui'.saves = ui.saves + 1

\* C27: whatever the sequence of previews, form edits and saves, every
\* row that on_save hands to apply_transaction (the values of a line of the
\* preview) carries the (ID, Bill number) that on_save passes as the key of
\* the duplicate deletion (the selected vendor and the bill number entry as
\* it reads at the save).
C27_SavedRowsCarryTheKeyOfTheSave ==
    [][SaveStep =>
          \A i \in 1..Len(ui.preview_lines) :
              /\ ui.preview_lines[i].values["ID"] = SelectedVendor.vendor_id
              /\ ui.preview_lines[i].values["Bill number"] =
                     normalize_bill_number(ui.bill_var).value]_vars

(***************************************************************************)
(* Claims about the backup of a call, checked under SpecBackup.            *)
(***************************************************************************)
\* The file the call copied the ledger to, if it is still in the directory.
BackupOfCall == {f \in backup_dir : f.name = BackupName(txn.pre.now)}

RowsOfCall ==
    UNION {{txn.args.table_to_rows[k].rows[j] :
               j \in 1..Len(txn.args.table_to_rows[k].rows)} :
           k \in 1..Len(txn.args.table_to_rows)}

\* C21: whenever a call creates a backup, whether it then returns or raises,
\* the backup holds the ledger as it was persisted when the call started,
\* and so none of the rows the call was handed.
C21_BackupHoldsLedgerAsItWas ==
    (TxnDone /\ txn.res.ran.backup_excel) =>
        \A f \in BackupOfCall :
            /\ f.content = txn.pre.ledger.wb
            /\ \A s \in 1..Len(f.content) : \A r \in 1..Len(f.content[s].rows) :
                  RowValues(f.content[s].headers, f.content[s].rows[r])
                      \notin RowsOfCall

\* A call makes a backup, writes rows to the ledger and returns, and the
\* backup is in the directory.
C21_Witness ==
    /\ TxnOk
    /\ txn.res.ran.backup_excel
    /\ BackupOfCall # {}
    /\ excel_file.wb # txn.pre.ledger.wb
    /\ \E s \in 1..Len(excel_file.wb) : \E r \in 1..Len(excel_file.wb[s].rows) :
          RowValues(excel_file.wb[s].headers, excel_file.wb[s].rows[r]) \in RowsOfCall

\* C26: when a call creates a backup and returns, with
\* retention_keep_last_n >= 1 and retention_keep_days >= 1, the backup path
\* it returns names a file that is in the backup directory at the return,
\* whatever the age of the ledger and the other backups.
C26_ReturnedBackupExists ==
    (/\ TxnOk
     /\ txn.res.returned[1].backup_created
     /\ txn.args.retention_keep_last_n >= 1
     /\ txn.args.retention_keep_days >= 1)
        => Exists(backup_dir, txn.res.returned[1].backup_path)

(***************************************************************************)
(* Claims about the standard schedule of Claro siptrunk, checked under     *)
(* SpecSiptrunk.                                                           *)
(***************************************************************************)
SiptrunkDone == rule.pc = "done" /\ rule.out.status = "ok"

SipAmounts == LineSubtotals(rule.out.lines)

FixedCount == Len(SIPTRUNK_FIXED_LINES_ABS)

SipSign == IF rule.invoice.subtotal < 0 THEN -1 ELSE 1

SipFixedTotal == SumSeq(SubSeq(SipAmounts, 1, FixedCount))

SipBase == rule.invoice.subtotal - SipFixedTotal

\* q2(base * pct / 100) for variable line i
Nominal(i) ==
    LET num == SipBase * SIPTRUNK_VARIABLE_LINES[i].pct
        mag == (2 * Abs(num) + 10000) \div 20000
    IN  IF num < 0 THEN -mag ELSE mag

\* C23: for every two-decimal subtotal S the schedule has seven lines; the
\* two fixed lines are 300.00 and 200.00 with the sign of S; the first four
\* variable lines are their percentage of base = S - fixed total; the five
\* variable lines sum exactly to base; and the seven lines sum to S.
C23_FixedFirstThenRemainderShared ==
    SiptrunkDone =>
        /\ Len(SipAmounts) = FixedCount + Len(SIPTRUNK_VARIABLE_LINES)
        /\ SipAmounts[1] = SipSign * 30000
        /\ SipAmounts[2] = SipSign * 20000
        /\ \A i \in 1..Len(SIPTRUNK_VARIABLE_LINES) - 1 :
              SipAmounts[FixedCount + i] = Nominal(i)
        /\ SumSeq(SubSeq(SipAmounts, FixedCount + 1, Len(SipAmounts))) = SipBase
        /\ SumSeq(SipAmounts) = rule.invoice.subtotal

\* A subtotal for which the percentages of the base do not add up to the
\* base, so that the last variable line is adjusted.
C23_Witness ==
    /\ SiptrunkDone
    /\ Len(SipAmounts) = FixedCount + Len(SIPTRUNK_VARIABLE_LINES)
    /\ SipAmounts[Len(SipAmounts)] # Nominal(Len(SIPTRUNK_VARIABLE_LINES))
    /\ rule.invoice.subtotal > 50000

\* The tax and total columns of line i of the result.
SipTaxAndTotal(i) ==
    [iva |-> rule.out.lines[i].values["IVA assigned by CC"],
     total |-> rule.out.lines[i].values["Total assigned by CC"]]

\* C24: each fixed line of the schedule carries its amount of the table
\* with the sign of the invoice subtotal, negative below zero and positive
\* from zero on, and the same cost centre and account either way; the tax
\* and the total of the line of a credit note are those of the positive
\* line, negated.
C24_FixedLinesTrackSignOfSubtotal ==
    SiptrunkDone =>
        \A i \in 1..FixedCount :
            LET abs_amt == SIPTRUNK_FIXED_LINES_ABS[i].abs_amt
                pos == calc_iva_and_total(abs_amt, rule.invoice.iva_rate)
            IN  /\ rule.invoice.subtotal < 0 => SipAmounts[i] = -abs_amt
                /\ rule.invoice.subtotal >= 0 => SipAmounts[i] = abs_amt
                /\ SipTaxAndTotal(i) = [iva |-> SipSign * pos.iva,
                                        total |-> SipSign * pos.total]
                /\ rule.out.lines[i].values["CC"] = SIPTRUNK_FIXED_LINES_ABS[i].cc
                /\ rule.out.lines[i].values["GL account"] = SIPTRUNK_FIXED_LINES_ABS[i].gl

\* A credit note: the fixed lines are -300.00 and -200.00.
C24_Witness ==
    /\ SiptrunkDone
    /\ rule.invoice.subtotal < 0
    /\ rule.invoice.iva_rate > 0
    /\ SipAmounts[1] = -30000
    /\ SipAmounts[2] = -20000
    /\ SipTaxAndTotal(1).total < -30000

\* What the last line carries beyond its percentage of the base.
SipDrift == SipAmounts[Len(SipAmounts)] - Nominal(Len(SIPTRUNK_VARIABLE_LINES))

\* C29: for every two-decimal subtotal, after the adjustment of the variable
\* segment and the closing adjustment, the Subtotal assigned of the last
\* line is within 0.02 of q2(base * 5 / 100), base = subtotal - fixed total.
C29_LastLineDriftAtMostTwoCents ==
    SiptrunkDone => Abs(SipDrift) <= 2

\* Subtotals whose last line is moved by two cents, up and down.
C29_Witness ==
    /\ SiptrunkDone
    /\ Abs(SipDrift) = 2
    /\ rule.invoice.subtotal > 50000

(***************************************************************************)
(* Claims about the validator in percent mode, checked under SpecPercent.  *)
(***************************************************************************)
\* The percentages of the call, in hundredths of a percent.
PercentsOfCall ==
    [i \in 1..Len(alloc.allocations) |-> alloc.allocations[i].percent[1]]

\* C30: in percent mode, whenever the percentages sum to exactly 100 and
\* the subtotal has two fractional digits, the validator succeeds, whatever
\* the number of lines.
C30_HundredPercentNeverRaises ==
    (/\ alloc.pc = "done"
     /\ alloc.mode = "percent"
     /\ alloc.allocations # <<>>
     /\ SumSeq(PercentsOfCall) = 10000)
        => alloc.out.status = "ok"

=============================================================================
